---- MODULE Spec2Model ----
(***************************************************************************)
(* Craftsman coverage analysis: the adaptive address parser               *)
(* (FormatLearner, AdaptiveMatcher._normalize_street) and the analysis    *)
(* engine (CraftsmanCoverageAnalyzer) of src/google_sheets_analyzer.py.   *)
(*                                                                         *)
(* A Python str is a sequence of characters; a character is a one-letter  *)
(* TLA+ string.  Characters outside ASCII are written by code point:      *)
(* "U+00FC" is u-umlaut, "U+00DF" sharp s, "U+2013" the en dash, "U+2014" *)
(* the em dash.  Category and craftsman names are only ever compared for  *)
(* equality by the code and are kept as atoms.                             *)
(***************************************************************************)
EXTENDS Integers, Sequences, FiniteSets, TLC

\* ---------------------------------------------------------------------
\* Character classes (Python's str methods and the re module's \d \s \w)
\* ---------------------------------------------------------------------

Digits == {"0", "1", "2", "3", "4", "5", "6", "7", "8", "9"}

UpperSeq ==
  <<"A", "B", "C", "D", "E", "F", "G", "H", "I", "J", "K", "L", "M", "N",
    "O", "P", "Q", "R", "S", "T", "U", "V", "W", "X", "Y", "Z",
    "U+00C4", "U+00D6", "U+00DC">>

LowerSeq ==
  <<"a", "b", "c", "d", "e", "f", "g", "h", "i", "j", "k", "l", "m", "n",
    "o", "p", "q", "r", "s", "t", "u", "v", "w", "x", "y", "z",
    "U+00E4", "U+00F6", "U+00FC">>

Range(f) == {f[i] : i \in DOMAIN f}

UpperLetters == Range(UpperSeq)

LowerLetters == Range(LowerSeq) \cup {"U+00DF"}

Whitespace == {" ", "\t", "\n"}

Dashes == {"-", "U+2013", "U+2014"}

IsDigit(c) == c \in Digits

IsSpace(c) == c \in Whitespace

IsAlpha(c) == c \in UpperLetters \cup LowerLetters

IsWord(c) == IsDigit(c) \/ IsAlpha(c) \/ c = "_"

\* str.lower() on one character
LowerChar(c) ==
  IF c \in UpperLetters
  THEN LowerSeq[CHOOSE i \in DOMAIN UpperSeq : UpperSeq[i] = c]
  ELSE c

Lower(s) == [i \in DOMAIN s |-> LowerChar(s[i])]

\* ---------------------------------------------------------------------
\* String helpers: str.strip, `in`, str.split, str.rsplit(" ", 1),
\* str.replace, str.startswith, int(), str()
\* ---------------------------------------------------------------------

StartsAt(s, sub, i) ==
  /\ i >= 1
  /\ i + Len(sub) - 1 <= Len(s)
  /\ \A k \in 1..Len(sub) : s[i + k - 1] = sub[k]

\* the least index >= from at which sub occurs in s, or 0
RECURSIVE Find(_, _, _)
Find(s, sub, from) ==
  IF from + Len(sub) - 1 > Len(s) THEN 0
  ELSE IF StartsAt(s, sub, from) THEN from
  ELSE Find(s, sub, from + 1)

\* sub in s
Contains(s, sub) == Find(s, sub, 1) # 0

StartsWith(s, prefix) == StartsAt(s, prefix, 1)

EndsWith(s, suffix) == StartsAt(s, suffix, Len(s) - Len(suffix) + 1)

\* s.split(sep), sep not empty (also re.split(re.escape(sep), s))
RECURSIVE Split(_, _)
Split(s, sep) ==
  LET i == Find(s, sep, 1) IN
  IF i = 0 THEN <<s>>
  ELSE <<SubSeq(s, 1, i - 1)>> \o Split(SubSeq(s, i + Len(sep), Len(s)), sep)

\* s.replace(old, new), old not empty
RECURSIVE Replace(_, _, _)
Replace(s, old, new) ==
  LET i == Find(s, old, 1) IN
  IF i = 0 THEN s
  ELSE SubSeq(s, 1, i - 1) \o new
       \o Replace(SubSeq(s, i + Len(old), Len(s)), old, new)

\* the greatest index of c in s, or 0
LastIndexOf(s, c) ==
  IF \E i \in DOMAIN s : s[i] = c
  THEN CHOOSE i \in DOMAIN s : s[i] = c /\ \A j \in DOMAIN s : s[j] = c => j <= i
  ELSE 0

\* s.rsplit(" ", 1)[0]
RSplitHead(s) ==
  LET i == LastIndexOf(s, " ") IN
  IF i = 0 THEN s ELSE SubSeq(s, 1, i - 1)

\* s.strip()
Strip(s) ==
  IF \A i \in DOMAIN s : IsSpace(s[i]) THEN <<>>
  ELSE LET a == CHOOSE i \in DOMAIN s :
                  ~IsSpace(s[i]) /\ \A j \in 1..(i - 1) : IsSpace(s[j])
           b == CHOOSE i \in DOMAIN s :
                  ~IsSpace(s[i]) /\ \A j \in (i + 1)..Len(s) : IsSpace(s[j])
       IN SubSeq(s, a, b)

\* the string with every character of the class removed (re.sub(cls, '', s))
Without(s, cls) == SelectSeq(s, LAMBDA c : c \notin cls)

DigitValue(c) == CHOOSE v \in 0..9 : <<"0", "1", "2", "3", "4", "5", "6", "7", "8", "9">>[v + 1] = c

\* int(ds) for a string of digits
RECURSIVE ToInt(_)
ToInt(ds) ==
  IF ds = <<>> THEN 0
  ELSE 10 * ToInt(SubSeq(ds, 1, Len(ds) - 1)) + DigitValue(ds[Len(ds)])

\* str(n) for n >= 0
RECURSIVE ToStr(_)
ToStr(n) ==
  LET d == <<"0", "1", "2", "3", "4", "5", "6", "7", "8", "9">>[(n % 10) + 1] IN
  IF n < 10 THEN <<d>> ELSE ToStr(n \div 10) \o <<d>>

\* ---------------------------------------------------------------------
\* Digit runs: re.findall(r'(\d+)', s) and re.search(r'(\d+)', s)
\* ---------------------------------------------------------------------

\* the index of the last digit of the maximal digit run that starts at i
RECURSIVE RunEnd(_, _)
RunEnd(s, i) ==
  IF i + 1 <= Len(s) /\ IsDigit(s[i + 1]) THEN RunEnd(s, i + 1) ELSE i

\* the <<first, last>> spans of the maximal digit runs of s from index i on
RECURSIVE DigitRunSpansFrom(_, _)
DigitRunSpansFrom(s, i) ==
  IF i > Len(s) THEN <<>>
  ELSE IF IsDigit(s[i])
       THEN LET e == RunEnd(s, i) IN <<(<<i, e>>)>> \o DigitRunSpansFrom(s, e + 1)
       ELSE DigitRunSpansFrom(s, i + 1)

DigitRunSpans(s) == DigitRunSpansFrom(s, 1)

\* re.findall(r'(\d+)', s)
DigitRuns(s) ==
  LET sp == DigitRunSpans(s) IN
  [k \in DOMAIN sp |-> SubSeq(s, sp[k][1], sp[k][2])]

\* the least index >= i that holds no whitespace (Len(s) + 1 when none)
RECURSIVE SkipSpaces(_, _)
SkipSpaces(s, i) ==
  IF i <= Len(s) /\ IsSpace(s[i]) THEN SkipSpaces(s, i + 1) ELSE i

\* ---------------------------------------------------------------------
\* FormatLearner
\* ---------------------------------------------------------------------

\* the digit-count limit of a house number (len(match) <= 3)
MaxHouseDigits == 3

\* the length limit of a bare postal code (len(service_lower) <= 5)
MaxPlzLen == 5

\* number_separators is a dict: its items in insertion order,
\* each <<separator, frequency>>
EmptyTable == <<>>

TableIndex(table, sep) ==
  IF \E i \in DOMAIN table : table[i][1] = sep
  THEN CHOOSE i \in DOMAIN table : table[i][1] = sep
  ELSE 0

\* a separator counted at its first occurrence only
TableAdd_counts_once(table, sep) ==
  IF TableIndex(table, sep) = 0 THEN Append(table, <<sep, 1>>) ELSE table

\* self.number_separators[sep] = self.number_separators.get(sep, 0) + 1
TableAdd(table, sep) ==
  LET i == TableIndex(table, sep) IN
  IF i = 0 THEN Append(table, <<sep, 1>>)
  ELSE [table EXCEPT ![i] = <<sep, table[i][2] + 1>>]

\* The separators learn_from_service_areas finds in one area, in order:
\* the text between two consecutive digit runs when it holds no digit and
\* no word character (the two regular expressions of lines 779 and 782).
Separators(area) ==
  LET sp == DigitRunSpans(area)
      gap(k) == SubSeq(area, sp[k][2] + 1, sp[k + 1][1] - 1)
      ok(k) == \A i \in DOMAIN gap(k) : ~IsWord(gap(k)[i])
      idx == SelectSeq([k \in 1..(Len(sp) - 1) |-> k], ok)
  IN [j \in DOMAIN idx |-> gap(idx[j])]

RECURSIVE TableAddAll(_, _)
TableAddAll(table, seps) ==
  IF seps = <<>> THEN table
  ELSE TableAddAll(TableAdd(table, Head(seps)), Tail(seps))

\* FormatLearner.learn_from_service_areas
RECURSIVE learn_from_service_areas(_, _)
learn_from_service_areas(table, service_areas) ==
  IF service_areas = <<>> THEN table
  ELSE learn_from_service_areas(
         TableAddAll(table, Separators(Head(service_areas))),
         Tail(service_areas))

\* sorted(self.number_separators.items(), key=lambda x: x[1], reverse=True):
\* descending frequency, equal frequencies in insertion order (stable sort)
RECURSIVE SortedByFrequency(_)
SortedByFrequency(table) ==
  IF table = <<>> THEN <<>>
  ELSE LET i == CHOOSE i \in DOMAIN table :
                  /\ \A j \in DOMAIN table : table[j][2] <= table[i][2]
                  /\ \A j \in 1..(i - 1) : table[j][2] < table[i][2]
           rest == [k \in 1..(Len(table) - 1) |->
                      IF k < i THEN table[k] ELSE table[k + 1]]
       IN <<table[i]>> \o SortedByFrequency(rest)

\* re.search(r'(\d+)\s*[-–—]\s*(\d+)', text): <<group 1, group 2>> of the
\* leftmost match, or <<>> when there is none
RangeMatch(text) ==
  LET sp == DigitRunSpans(text)
      dash(k) == SkipSpaces(text, sp[k][2] + 1)
      second(k) == SkipSpaces(text, dash(k) + 1)
      hit(k) == /\ dash(k) <= Len(text)
                /\ text[dash(k)] \in Dashes
                /\ second(k) <= Len(text)
                /\ IsDigit(text[second(k)])
  IN IF \E k \in DOMAIN sp : hit(k)
     THEN LET k == CHOOSE k \in DOMAIN sp : hit(k) /\ \A j \in 1..(k - 1) : ~hit(j)
          IN <<SubSeq(text, sp[k][1], sp[k][2]),
               SubSeq(text, second(k), RunEnd(text, second(k)))>>
     ELSE <<>>

\* the range rule with range(start, end): the last number is left out
RangeRule_exclusive_end(text) ==
  LET m == RangeMatch(text) IN
  {ToStr(n) : n \in ToInt(m[1])..(ToInt(m[2]) - 1)}

\* the range rule: [str(n) for n in range(start, end + 1)]
RangeRule(text) ==
  LET m == RangeMatch(text) IN {ToStr(n) : n \in ToInt(m[1])..ToInt(m[2])}

\* the slash rule: every digit run of at most 3 digits of every '/'-part
SlashRule(text) ==
  LET parts == Split(text, <<"/">>) IN
  UNION {{r \in Range(DigitRuns(parts[i])) : Len(r) <= MaxHouseDigits} :
           i \in DOMAIN parts}

\* one learned separator: the first digit run of every part, when it has
\* at most 3 digits
SeparatorRule(text, separator) ==
  LET parts == Split(text, separator)
      first(i) == LET runs == DigitRuns(parts[i]) IN
                  IF runs = <<>> THEN <<>> ELSE runs[1]
  IN {first(i) : i \in {j \in DOMAIN parts :
                          first(j) # <<>> /\ Len(first(j)) <= MaxHouseDigits}}

\* the loop over the learned separators, from the most frequent on
RECURSIVE LearnedRule(_, _)
LearnedRule(text, sorted) ==
  IF sorted = <<>> THEN {}
  ELSE LET separator == Head(sorted)[1] IN
       IF /\ Contains(text, separator)
          /\ separator # <<"/">>
          /\ SeparatorRule(text, separator) # {}
       THEN SeparatorRule(text, separator)
       ELSE LearnedRule(text, Tail(sorted))

\* the generic fallback: all digit runs of at most 3 digits
FallbackRule(text) == {r \in Range(DigitRuns(text)) : Len(r) <= MaxHouseDigits}

\* extract_numbers with the learned separators tried before '/'
extract_numbers_learned_first(table, text) ==
  IF RangeMatch(text) # <<>> THEN RangeRule(text)
  ELSE IF LearnedRule(text, SortedByFrequency(table)) # {}
       THEN LearnedRule(text, SortedByFrequency(table))
  ELSE IF Contains(text, <<"/">>) /\ SlashRule(text) # {} THEN SlashRule(text)
  ELSE FallbackRule(text)

\* FormatLearner.extract_numbers, as the set of the strings of the list it
\* returns (a list(set(...)) has no defined order, and every caller only
\* tests membership and emptiness)
extract_numbers(table, text) ==
  IF RangeMatch(text) # <<>> THEN RangeRule(text)
  ELSE IF Contains(text, <<"/">>) /\ SlashRule(text) # {} THEN SlashRule(text)
  ELSE IF LearnedRule(text, SortedByFrequency(table)) # {}
       THEN LearnedRule(text, SortedByFrequency(table))
  ELSE FallbackRule(text)

\* ---------------------------------------------------------------------
\* AdaptiveMatcher._normalize_street
\* ---------------------------------------------------------------------

strasse == <<"s", "t", "r", "a", "s", "s", "e">>

strasze == <<"s", "t", "r", "a", "U+00DF", "e">>

str == <<"s", "t", "r">>

\* re.sub(r'strasse$|straße$', 'str', s) on a string without whitespace
CollapseSuffix(s) ==
  IF EndsWith(s, strasse) THEN SubSeq(s, 1, Len(s) - Len(strasse)) \o str
  ELSE IF EndsWith(s, strasze) THEN SubSeq(s, 1, Len(s) - Len(strasze)) \o str
  ELSE s

\* _normalize_street without the removal of periods
_normalize_street_keeps_periods(street) ==
  LET lowered == Strip(Lower(street))
      noSpaces == Without(lowered, Whitespace)
      noHyphens == Without(noSpaces, {"-"})
  IN CollapseSuffix(noHyphens)

\* _normalize_street with the suffix collapsed before periods, whitespace and
\* hyphens are removed
_normalize_street_collapses_first(street) ==
  LET collapsed == CollapseSuffix(Strip(Lower(street)))
      noPeriods == Without(collapsed, {"."})
      noSpaces == Without(noPeriods, Whitespace)
  IN Without(noSpaces, {"-"})

_normalize_street(street) ==
  LET lowered == Strip(Lower(street))
      noPeriods == Without(lowered, {"."})
      noSpaces == Without(noPeriods, Whitespace)
      noHyphens == Without(noSpaces, {"-"})
  IN CollapseSuffix(noHyphens)

\* ---------------------------------------------------------------------
\* AdaptiveTokenizer, SegmentParser, AdaptiveMatcher
\* ---------------------------------------------------------------------

\* '.*$' matches from index j on: '.' matches no newline, and '$' matches at
\* the end or before a newline that ends the string
TailMatches(s, j) == \A k \in j..Len(s) : s[k] = "\n" => k = Len(s)

\* the least index >= i that holds no character of the class
RECURSIVE SkipClass(_, _, _)
SkipClass(s, i, cls) ==
  IF i <= Len(s) /\ s[i] \in cls THEN SkipClass(s, i + 1, cls) ELSE i

\* re.match(r'^\d{4,5}\s+', sub_segment)
IsPostalPrefix(sub_segment) ==
  \E n \in {4, 5} :
    /\ Len(sub_segment) > n
    /\ \A i \in 1..n : IsDigit(sub_segment[i])
    /\ IsSpace(sub_segment[n + 1])

RECURSIVE Flatten(_)
Flatten(seqs) == IF seqs = <<>> THEN <<>> ELSE Head(seqs) \o Flatten(Tail(seqs))

\* [A-Z]
AsciiUpper == {UpperSeq[i] : i \in 1..26}

\* re.match(r'^(.*?)[\s.]*(\d+.*)$', s) with group 1 ending before index i:
\* no newline before i, then the run of whitespace and periods from i on
\* ends at a digit, and the rest holds no newline
SplitHit(s, i) ==
  LET j == SkipClass(s, i, Whitespace \cup {"."}) IN
  /\ \A k \in 1..(i - 1) : s[k] # "\n"
  /\ j <= Len(s)
  /\ IsDigit(s[j])
  /\ TailMatches(s, j)

\* whether the pattern matches s
HasSplit(s) == \E i \in DOMAIN s : SplitHit(s, i)

\* the least i with SplitHit: group 1 is lazy
SplitAt(s) == CHOOSE i \in DOMAIN s : SplitHit(s, i) /\ \A k \in 1..(i - 1) : ~SplitHit(s, k)

\* match.group(1)
SplitStreet(s) == SubSeq(s, 1, SplitAt(s) - 1)

\* match.group(2)
SplitNumbers(s) ==
  SubSeq(s, SkipClass(s, SplitAt(s), Whitespace \cup {"."}),
         IF s[Len(s)] = "\n" THEN Len(s) - 1 ELSE Len(s))

\* str.isdigit()
IsDigitString(s) == s # <<>> /\ \A i \in DOMAIN s : IsDigit(s[i])

\* the pieces of a text: split by " / ", then by ",", stripped, empty ones
\* dropped
Parts(text) ==
  LET segments == Split(text, <<" ", "/", " ">>)
      subs == Flatten([i \in DOMAIN segments |->
                         LET parts == Split(segments[i], <<",">>) IN
                         [k \in DOMAIN parts |-> Strip(parts[k])]])
  IN SelectSeq(subs, LAMBDA sub : sub # <<>>)

Token(type, value) == [type |-> type, value |-> value]

\* AdaptiveTokenizer._tokenize_part: head is the tokens before the NUMBER
\* tokens, in order (at most one STREET, POSTAL or CITY token), numbers the
\* set of the values of the NUMBER tokens that follow
_tokenize_part(table, part) ==
  LET pieces == Split(part, <<"/">>) IN
  IF Contains(part, <<"/">>) /\ ~\E i \in DOMAIN pieces[1] : IsAlpha(pieces[1][i])
  THEN [head |-> <<>>,
        numbers |-> {Strip(pieces[k]) : k \in {k \in DOMAIN pieces :
                                                 IsDigitString(Strip(pieces[k]))}}]
  ELSE IF HasSplit(part)
  THEN [head |-> IF Strip(SplitStreet(part)) # <<>>
                 THEN <<Token("STREET", Strip(SplitStreet(part)))>> ELSE <<>>,
        numbers |-> extract_numbers(table, SplitNumbers(part))]
  ELSE IF part = <<>> THEN [head |-> <<>>, numbers |-> {}]
  ELSE [head |-> <<Token(IF IsPostalPrefix(part) THEN "POSTAL"
                         ELSE IF part[1] \in AsciiUpper THEN "CITY"
                         ELSE "STREET", part)>>,
        numbers |-> {}]

\* AdaptiveTokenizer.tokenize: the tokens of every piece, in order
tokenize(table, text) ==
  IF Strip(text) = <<>> THEN <<>>
  ELSE [k \in DOMAIN Parts(text) |-> _tokenize_part(table, Parts(text)[k])]

\* AdaptiveMatcher._extract_street_from_tokens
_extract_street_from_tokens(tokens) ==
  LET streets == SelectSeq(Flatten([k \in DOMAIN tokens |-> tokens[k].head]),
                           LAMBDA token : token.type = "STREET")
  IN IF streets = <<>> THEN <<>> ELSE streets[1].value

\* AdaptiveMatcher._extract_numbers_from_tokens
_extract_numbers_from_tokens(tokens) ==
  UNION {tokens[k].numbers : k \in DOMAIN tokens}

\* re.match(r'^\d{4,5}\s+[A-Z]', segment)
IsPostalCity(segment) ==
  \E n \in {4, 5} :
    /\ Len(segment) > n
    /\ \A i \in 1..n : IsDigit(segment[i])
    /\ IsSpace(segment[n + 1])
    /\ LET j == SkipSpaces(segment, n + 1) IN
       j <= Len(segment) /\ segment[j] \in AsciiUpper

\* SegmentParser.parse_segment: type, street, numbers and confidence (a
\* fraction <<numerator, denominator>>); value is the str(int(segment)) of a
\* NUMBER
parse_segment(table, raw_segment) ==
  LET segment == Strip(raw_segment)
      other(type, confidence) ==
        [type |-> type, street |-> <<>>, numbers |-> {}, value |-> <<>>,
         confidence |-> confidence]
  IN IF segment = <<>> THEN other("UNKNOWN", <<0, 100>>)
     ELSE IF IsPostalCity(segment) THEN other("POSTAL_CODE", <<95, 100>>)
     ELSE IF IsDigitString(segment)
     THEN [type |-> "NUMBER", street |-> <<>>, numbers |-> {},
           value |-> ToStr(ToInt(segment)), confidence |-> <<90, 100>>]
     ELSE IF \E i \in DOMAIN segment : IsAlpha(segment[i])
     THEN IF HasSplit(segment)
          THEN [type |-> "STREET", street |-> Strip(SplitStreet(segment)),
                numbers |-> extract_numbers(table, SplitNumbers(segment)),
                value |-> <<>>, confidence |-> <<85, 100>>]
          ELSE [type |-> "STREET", street |-> segment, numbers |-> {},
                value |-> <<>>, confidence |-> <<80, 100>>]
     ELSE other("UNKNOWN", <<0, 100>>)

\* AdaptiveMatcher._detect_format
_detect_format(area) ==
  LET pieces == Split(area, <<" ", "/", " ">>) IN
  IF /\ Contains(area, <<" ", "/", " ">>)
     /\ ~(pieces[1] # <<>> /\ IsDigit(pieces[1][1]))
  THEN IF \A k \in 2..Len(pieces) :
            Strip(pieces[k]) # <<>> /\ IsDigit(Strip(pieces[k])[1])
       THEN "multi_property_range"
       ELSE "multi_street"
  ELSE IF Contains(area, <<",">>) THEN "comma_separated"
  ELSE "simple"

ParsedSegment(street, numbers) == [street |-> street, numbers |-> numbers]

\* self.parser.parse_segment of every segment, in order
ParseAll(table, segments) ==
  [k \in DOMAIN segments |-> parse_segment(table, segments[k])]

\* the "multi_property_range" loop over the parsed segments: the numbers of
\* the STREET segment itself are not kept
RECURSIVE ParseRange(_, _)
ParseRange(parsed_segs, last_street) ==
  IF parsed_segs = <<>> THEN <<>>
  ELSE IF Head(parsed_segs).type = "STREET"
  THEN ParseRange(Tail(parsed_segs), Head(parsed_segs).street)
  ELSE IF Head(parsed_segs).type = "NUMBER"
  THEN <<ParsedSegment(last_street, {Head(parsed_segs).value})>>
       \o ParseRange(Tail(parsed_segs), last_street)
  ELSE ParseRange(Tail(parsed_segs), last_street)

\* the "comma_separated" loop over the parsed parts and the final append
RECURSIVE ParseCommas(_, _, _)
ParseCommas(parsed_parts, street, numbers) ==
  IF parsed_parts = <<>>
  THEN IF street # <<>> /\ numbers # {}
       THEN <<ParsedSegment(street, numbers)>> ELSE <<>>
  ELSE IF Head(parsed_parts).type = "STREET"
  THEN IF street # <<>> /\ numbers # {}
       THEN <<ParsedSegment(street, numbers)>>
            \o ParseCommas(Tail(parsed_parts), Head(parsed_parts).street,
                           Head(parsed_parts).numbers)
       ELSE ParseCommas(Tail(parsed_parts), Head(parsed_parts).street,
                        numbers \cup Head(parsed_parts).numbers)
  ELSE IF Head(parsed_parts).type = "NUMBER"
  THEN ParseCommas(Tail(parsed_parts), street,
                   numbers \cup {Head(parsed_parts).value})
  ELSE ParseCommas(Tail(parsed_parts), street, numbers)

\* the "multi_street" and "simple" branches: the parsed segments that are a
\* STREET
StreetSegments(parsed_segs) ==
  LET streets == SelectSeq(parsed_segs, LAMBDA seg : seg.type = "STREET")
  IN [k \in DOMAIN streets |-> ParsedSegment(streets[k].street, streets[k].numbers)]

\* the pieces a format splits the area into
FormatSegments(area, format_type) ==
  IF format_type \in {"multi_property_range", "multi_street"}
  THEN Split(area, <<" ", "/", " ">>)
  ELSE IF format_type = "comma_separated"
  THEN Split(area, <<",">>)
  ELSE <<area>>

\* the loop of a format over its parsed pieces
FormatLoop(parsed_segs, format_type) ==
  IF format_type = "multi_property_range" THEN ParseRange(parsed_segs, <<>>)
  ELSE IF format_type = "comma_separated" THEN ParseCommas(parsed_segs, <<>>, {})
  ELSE StreetSegments(parsed_segs)

\* AdaptiveMatcher._parse_by_format
_parse_by_format(table, area, format_type) ==
  FormatLoop(ParseAll(table, FormatSegments(area, format_type)), format_type)

\* AdaptiveMatcher._streets_match
_streets_match(street1, street2) ==
  /\ street1 # <<>>
  /\ street2 # <<>>
  /\ _normalize_street(street1) = _normalize_street(street2)

\* the two results of match_property; a confidence is the fraction
\* <<numerator, denominator>>
Matched ==
  [matched |-> TRUE, confidence |-> <<9, 10>>,
   reason |-> "street_and_number_match", matched_by |-> "adaptive_parser"]

NotMatched ==
  [matched |-> FALSE, confidence |-> <<0, 10>>,
   reason |-> "no_match", matched_by |-> "adaptive_parser"]

\* the loop of match_property over the parsed segments
MatchSegments(prop_street, prop_numbers, parsed) ==
  IF \E parsed_segment \in Range(parsed) :
       /\ _streets_match(prop_street, parsed_segment.street)
       /\ parsed_segment.numbers \cap prop_numbers # {}
  THEN Matched
  ELSE NotMatched

\* the property's street and numbers taken from its tokens
MatchTokens(prop_tokens, parsed) ==
  MatchSegments(_extract_street_from_tokens(prop_tokens),
                _extract_numbers_from_tokens(prop_tokens), parsed)

\* a street match alone taken as a match
match_property_street_alone(table, property_address, service_area) ==
  IF \E parsed_segment \in
         Range(_parse_by_format(table, service_area, _detect_format(service_area))) :
       _streets_match(_extract_street_from_tokens(tokenize(table, property_address)),
                      parsed_segment.street)
  THEN Matched
  ELSE NotMatched

\* AdaptiveMatcher.match_property
match_property(table, property_address, service_area) ==
  MatchTokens(tokenize(table, property_address),
              _parse_by_format(table, service_area, _detect_format(service_area)))

\* ---------------------------------------------------------------------
\* CraftsmanCoverageAnalyzer: matching
\* ---------------------------------------------------------------------

\* CraftsmanCoverageAnalyzer.extract_street_name
extract_street_name(property_address) == RSplitHead(property_address)

\* CraftsmanCoverageAnalyzer.extract_apartment_numbers
extract_apartment_numbers(table, address_str) ==
  extract_numbers(table, address_str)

\* CraftsmanCoverageAnalyzer.normalize_street_name
normalize_street_name(street) == _normalize_street(street)

\* re.sub(lead \d+.*$, '', s): s with its leftmost match removed, where lead
\* is a run of characters of the class (at least `least` of them)
CutNumberTail(s, cls, least) ==
  LET hit(i) == LET j == SkipClass(s, i, cls) IN
                /\ j - i >= least
                /\ j <= Len(s)
                /\ IsDigit(s[j])
                /\ TailMatches(s, j)
  IN IF \E i \in DOMAIN s : hit(i)
     THEN LET i == CHOOSE i \in DOMAIN s : hit(i) /\ \A k \in 1..(i - 1) : ~hit(k)
          IN SubSeq(s, 1, i - 1)
             \o (IF s[Len(s)] = "\n" THEN <<"\n">> ELSE <<>>)
     ELSE s

\* re.sub(r'\s+\d+.*$', '', street_name).strip()
PropertyStreetOnly(street_name) == Strip(CutNumberTail(street_name, Whitespace, 1))

\* re.sub(r'[\s.]*\d+.*$', '', service_street_part).strip()
ServiceStreetOnly(service_street_part) ==
  Strip(CutNumberTail(service_street_part, Whitespace \cup {"."}, 0))

\* service_area.replace('\t\n', ' / ').replace('\t', ' ').replace('\n', ' ')
NormalizeWhitespace(service_area) ==
  Replace(Replace(Replace(service_area, <<"\t", "\n">>, <<" ", "/", " ">>),
                  <<"\t">>, <<" ">>),
          <<"\n">>, <<" ">>)

\* service_segments: the area split on " / " and then on ",", each piece
\* stripped; empty pieces and postal codes are skipped
ServiceSegments(service_area) ==
  LET main == Split(service_area, <<" ", "/", " ">>)
      subs == Flatten([i \in DOMAIN main |->
                         LET parts == Split(main[i], <<",">>) IN
                         [k \in DOMAIN parts |-> Strip(parts[k])]])
  IN SelectSeq(subs, LAMBDA sub : sub # <<>> /\ ~IsPostalPrefix(sub))

\* the street comparison of one segment: exact, then normalized, then
\* prefix for names of at least 4 normalized characters
MinPrefixLen == 4

\* a comparison that knows only the exact tier
StreetMatch_exact_only(service_street_only, property_street_only) ==
  /\ service_street_only # <<>>
  /\ Lower(service_street_only) = Lower(property_street_only)

\* a prefix tier without the length floor
StreetMatch_no_length_floor(service_street_only, property_street_only) ==
  LET normalized_property == normalize_street_name(property_street_only)
      normalized_service == normalize_street_name(service_street_only)
  IN /\ service_street_only # <<>>
     /\ \/ StartsWith(normalized_property, normalized_service)
        \/ StartsWith(normalized_service, normalized_property)

StreetMatch(service_street_only, property_street_only) ==
  LET normalized_property == normalize_street_name(property_street_only)
      normalized_service == normalize_street_name(service_street_only)
  IN /\ service_street_only # <<>>
     /\ \/ Lower(service_street_only) = Lower(property_street_only)
        \/ normalized_property = normalized_service
        \/ /\ Len(normalized_service) >= MinPrefixLen
           /\ Len(normalized_property) >= MinPrefixLen
           /\ \/ StartsWith(normalized_property, normalized_service)
              \/ StartsWith(normalized_service, normalized_property)

\* the street a segment names: its own, or the last one named before it
SegmentStreet(segment, last_street_name) ==
  LET own == ServiceStreetOnly(Strip(Split(segment, <<",">>)[1])) IN
  IF own = <<>> /\ last_street_name # <<>> THEN last_street_name ELSE own

\* the loop over service_segments of one service area (PRIORITY 2); the
\* loop's last_street_name is <<>> for None
RECURSIVE SegmentsServe(_, _, _, _, _)
SegmentsServe(table, segments, last_street_name, property_street_only, property_numbers) ==
  IF segments = <<>> THEN FALSE
  ELSE LET segment == Head(segments)
           service_street_only == SegmentStreet(segment, last_street_name)
           service_numbers == extract_apartment_numbers(table, segment)
       IN \/ /\ StreetMatch(service_street_only, property_street_only)
             /\ property_numbers # {}
             /\ service_numbers \cap property_numbers # {}
          \/ SegmentsServe(table, Tail(segments), service_street_only,
                           property_street_only, property_numbers)

\* the containment tested in one direction only
LiteralMatch_one_way(service_area, street_name) ==
  Contains(service_area, street_name)

\* PRIORITY 1: street_name in service_area or service_area in street_name
LiteralMatch(service_area, street_name) ==
  Contains(service_area, street_name) \/ Contains(street_name, service_area)

\* one pass of the loop over craftsman.service_areas_plz
AreaServes(table, raw_service_area, street_name, property_numbers) ==
  LET service_area == NormalizeWhitespace(raw_service_area) IN
  \/ LiteralMatch(service_area, street_name)
  \/ SegmentsServe(table, ServiceSegments(service_area), <<>>,
                   PropertyStreetOnly(street_name), property_numbers)

\* an empty service-area list read as "serves nowhere"
ServesProperty_empty_serves_none(table, craftsman, property_address) ==
  LET street_name == extract_street_name(property_address)
      property_numbers == extract_apartment_numbers(table, property_address)
  IN \E i \in DOMAIN craftsman.service_areas_plz :
       AreaServes(table, craftsman.service_areas_plz[i], street_name,
                  property_numbers)

\* serves_property, for a craftsman that has the category
ServesProperty(table, craftsman, property_address) ==
  LET street_name == extract_street_name(property_address)
      property_numbers == extract_apartment_numbers(table, property_address)
  IN \/ craftsman.service_areas_plz = <<>>
     \/ \E i \in DOMAIN craftsman.service_areas_plz :
          AreaServes(table, craftsman.service_areas_plz[i], street_name,
                     property_numbers)

\* `category in craftsman.categories`
HasCategory(craftsman, category) ==
  \E i \in DOMAIN craftsman.categories : craftsman.categories[i] = category

\* the unrestricted craftsman appended before its categories are looked at
Matches_unrestricted_first(table, craftsman, property_address, category) ==
  \/ craftsman.service_areas_plz = <<>>
  \/ /\ \E i \in DOMAIN craftsman.categories : craftsman.categories[i] = category
     /\ \E i \in DOMAIN craftsman.service_areas_plz :
          AreaServes(table, craftsman.service_areas_plz[i],
                     extract_street_name(property_address),
                     extract_apartment_numbers(table, property_address))

\* whether the loop over self.craftsmen appends this craftsman
Matches(table, craftsman, property_address, category) ==
  /\ HasCategory(craftsman, category)
  /\ ServesProperty(table, craftsman, property_address)

Names(cs) == [i \in DOMAIN cs |-> cs[i].name]

\* the matching craftsmen listed from the last of the dict to the first
find_craftsmen_last_first(table, cs, property_address, category) ==
  LET found == Names(SelectSeq(cs, LAMBDA craftsman :
                                     Matches(table, craftsman, property_address, category)))
  IN [i \in DOMAIN found |-> found[Len(found) + 1 - i]]

\* CraftsmanCoverageAnalyzer.find_craftsmen_for_property_and_category
find_craftsmen_for_property_and_category(table, cs, property_address, category) ==
  Names(SelectSeq(cs, LAMBDA craftsman :
                        Matches(table, craftsman, property_address, category)))

\* ---------------------------------------------------------------------
\* CraftsmanCoverageAnalyzer: analysis
\* ---------------------------------------------------------------------

\* CoverageCategoryGap(category=category, responsible_craftsmen=[])
Gap(category) == [category |-> category, responsible_craftsmen |-> <<>>]

\* float addition and division by a count, on exact fractions
AddFractions(a, b) == <<a[1] * b[2] + b[1] * a[2], a[2] * b[2]>>

DivideFraction(a, n) == <<a[1], a[2] * n>>

\* the quotient taken as a whole number before the multiplication
CoveragePercentage_integer_division(covered_count, total) ==
  IF total # 0 THEN <<(covered_count \div total) * 100, 1>> ELSE <<0, 1>>

\* covered_count / len(self.categories) * 100 if self.categories else 0,
\* kept as the exact fraction <<numerator, denominator>>
CoveragePercentage(covered_count, total) ==
  IF total # 0 THEN <<covered_count * 100, total>> ELSE <<0, 1>>

\* the record analyze_property builds from what was found for each category
Analysis(property_address, cats, found) ==
  LET index == [i \in DOMAIN cats |-> i]
      uncovered == SelectSeq(index, LAMBDA i : found[i] = <<>>)
      covered_count == Len(SelectSeq(index, LAMBDA i : found[i] # <<>>))
  IN [property_name |-> property_address,
      total_categories |-> Len(cats),
      covered_categories |-> covered_count,
      coverage_percentage |-> CoveragePercentage(covered_count, Len(cats)),
      gaps |-> [k \in DOMAIN uncovered |-> Gap(cats[uncovered[k]])]]

\* CraftsmanCoverageAnalyzer.analyze_property
analyze_property(table, cs, cats, property_address) ==
  Analysis(property_address, cats,
           [i \in DOMAIN cats |->
              find_craftsmen_for_property_and_category(
                table, cs, property_address, cats[i])])

\* CraftsmanCoverageAnalyzer.analyze_all_properties
analyze_all_properties(table, cs, cats, props) ==
  [i \in DOMAIN props |-> analyze_property(table, cs, cats, props[i])]

\* all_service_areas of CraftsmanCoverageAnalyzer.__init__
AllServiceAreas(cs) == Flatten([i \in DOMAIN cs |-> cs[i].service_areas_plz])

\* ---------------------------------------------------------------------
\* CraftsmanCoverageAnalyzer: diagnostics
\* ---------------------------------------------------------------------

\* the order sorted() puts the craftsman names in
NameOrder == <<"W", "X", "Y", "Z">>

NameRank(name) == CHOOSE i \in DOMAIN NameOrder : NameOrder[i] = name

\* sorted(names)
RECURSIVE SortedNames(_)
SortedNames(names) ==
  IF names = <<>> THEN <<>>
  ELSE LET least == CHOOSE i \in DOMAIN names :
                      \A j \in DOMAIN names :
                        \/ NameRank(names[i]) < NameRank(names[j])
                        \/ NameRank(names[i]) = NameRank(names[j]) /\ i <= j
       IN <<names[least]>>
          \o SortedNames([k \in 1..(Len(names) - 1) |->
                            IF k < least THEN names[k] ELSE names[k + 1]])

\* the three priorities of the diagnostics for one service area and one
\* property
DiagnosticMatch(table, service_area, prop) ==
  LET prop_street == extract_street_name(prop)
      prop_numbers == extract_apartment_numbers(table, prop)
      area_numbers == extract_apartment_numbers(table, service_area)
  IN \/ Contains(service_area, prop_street) \/ Contains(prop_street, service_area)
     \/ prop_numbers \cap area_numbers # {}
     \/ \/ Contains(service_area, prop)
        \/ Contains(service_area, Strip(prop))
        \/ Contains(prop, service_area)

\* area_matches_property after the loop over self.properties
AreaMatchesProperty(table, props, service_area) ==
  \E i \in DOMAIN props : DiagnosticMatch(table, service_area, props[i])

\* is_just_plz
IsJustPlz(service_area) ==
  LET service_lower == Strip(Lower(service_area)) IN
  /\ Len(service_lower) <= MaxPlzLen
  /\ service_lower # <<>>
  /\ \A i \in DOMAIN service_lower : IsDigit(service_lower[i])

\* the <<craftsman name, service area>> pairs of the two outer loops, in order
AreaPairs(cs) ==
  Flatten([i \in DOMAIN cs |->
             [k \in DOMAIN cs[i].service_areas_plz |->
                <<cs[i].name, cs[i].service_areas_plz[k]>>]])

\* a dict of lists: its items in insertion order, each <<key, list>>
DictIndex(dict, key) ==
  IF \E i \in DOMAIN dict : dict[i][1] = key
  THEN CHOOSE i \in DOMAIN dict : dict[i][1] = key
  ELSE 0

\* if key not in dict: dict[key] = []; dict[key].append(value)
DictAppend(dict, key, value) ==
  LET i == DictIndex(dict, key) IN
  IF i = 0 THEN Append(dict, <<key, <<value>> >>)
  ELSE [dict EXCEPT ![i] = <<key, Append(dict[i][2], value)>>]

\* the dict the pairs build, the craftsman names of each key appended in order
RECURSIVE GroupByArea(_, _)
GroupByArea(dict, pairs) ==
  IF pairs = <<>> THEN dict
  ELSE GroupByArea(DictAppend(dict, Head(pairs)[2], Head(pairs)[1]), Tail(pairs))

\* dict[key] = sorted(dict[key]) for each key
SortValues(dict) == [i \in DOMAIN dict |-> <<dict[i][1], SortedNames(dict[i][2])>>]

\* find_missing_properties with the postal-code test left out
find_missing_properties_keeps_plz(table, cs, props) ==
  SortValues(GroupByArea(<<>>,
    SelectSeq(AreaPairs(cs), LAMBDA pair : ~AreaMatchesProperty(table, props, pair[2]))))

\* CraftsmanCoverageAnalyzer.find_missing_properties
find_missing_properties(table, cs, props) ==
  SortValues(GroupByArea(<<>>,
    SelectSeq(AreaPairs(cs), LAMBDA pair :
                /\ ~AreaMatchesProperty(table, props, pair[2])
                /\ ~IsJustPlz(pair[2]))))

\* CraftsmanCoverageAnalyzer.find_unmatched_service_areas
find_unmatched_service_areas(table, cs, props) ==
  SortValues(GroupByArea(<<>>,
    SelectSeq(AreaPairs(cs), LAMBDA pair : ~AreaMatchesProperty(table, props, pair[2]))))

\* ---------------------------------------------------------------------
\* CraftsmanCoverageAnalyzer: summary
\* ---------------------------------------------------------------------

\* PropertyCoverageAnalysis.has_gaps
has_gaps(analysis) == Len(analysis.gaps) > 0

\* PropertyCoverageAnalysis.get_gap_count
get_gap_count(analysis) == Len(analysis.gaps)

\* sum(1 for a in analyses if a.has_gaps())
PropertiesWithGaps(analyses) == Len(SelectSeq(analyses, has_gaps))

\* the gaps counted as the properties that have one
TotalGaps_counts_properties(analyses) == PropertiesWithGaps(analyses)

\* sum(a.get_gap_count() for a in analyses)
RECURSIVE TotalGaps(_)
TotalGaps(analyses) ==
  IF analyses = <<>> THEN 0
  ELSE get_gap_count(Head(analyses)) + TotalGaps(Tail(analyses))

\* sum(a.coverage_percentage for a in analyses), the exact fraction
RECURSIVE SumOfPercentages(_)
SumOfPercentages(analyses) ==
  IF analyses = <<>> THEN <<0, 1>>
  ELSE AddFractions(Head(analyses).coverage_percentage,
                    SumOfPercentages(Tail(analyses)))

\* sum(...) / len(analyses) if analyses else 0
AverageCoverage(analyses) ==
  IF analyses # <<>>
  THEN DivideFraction(SumOfPercentages(analyses), Len(analyses))
  ELSE <<0, 1>>

\* the categories of all gaps, in the order the two loops visit them
GapCategories(analyses) ==
  Flatten([i \in DOMAIN analyses |->
             [k \in DOMAIN analyses[i].gaps |-> analyses[i].gaps[k].category]])

\* category_gap_count[gap.category] = category_gap_count.get(gap.category, 0) + 1
CountGap(counts, category) ==
  IF \E i \in DOMAIN counts : counts[i][1] = category
  THEN [i \in DOMAIN counts |->
          IF counts[i][1] = category
          THEN <<category, counts[i][2] + 1>> ELSE counts[i]]
  ELSE Append(counts, <<category, 1>>)

\* category_gap_count after the loops: <<category, count>> in insertion order
RECURSIVE CountGaps(_, _)
CountGaps(counts, gap_categories) ==
  IF gap_categories = <<>> THEN counts
  ELSE CountGaps(CountGap(counts, Head(gap_categories)), Tail(gap_categories))

\* one item put into a list sorted by descending count, after the items
\* that count as much
InsertByCount(sorted, item) ==
  LET ahead == SelectSeq(sorted, LAMBDA x : x[2] >= item[2])
      behind == SelectSeq(sorted, LAMBDA x : x[2] < item[2])
  IN ahead \o <<item>> \o behind

\* the items in the order they came
SortedByGapCount_unsorted(items) == items

\* sorted(items, key=lambda x: x[1], reverse=True): a stable sort
RECURSIVE SortedByGapCount(_)
SortedByGapCount(items) ==
  IF items = <<>> THEN <<>>
  ELSE InsertByCount(SortedByGapCount(SubSeq(items, 1, Len(items) - 1)),
                     items[Len(items)])

\* the [:5] of the sorted items
LowestCoverageLen == 5

\* dict(sorted(...)[:5])
LowestCoverage(sorted) ==
  SubSeq(sorted, 1, IF Len(sorted) < LowestCoverageLen
                    THEN Len(sorted) ELSE LowestCoverageLen)

\* the CoverageSummary built from the counts
Summary(total, properties_with_gaps, total_gaps, avg_coverage, lowest_coverage, source_name) ==
  [total_properties |-> total,
   properties_with_gaps |-> properties_with_gaps,
   properties_with_full_coverage |-> total - properties_with_gaps,
   total_gaps_across_all_properties |-> total_gaps,
   average_coverage_percentage |-> avg_coverage,
   categories_with_lowest_coverage |-> lowest_coverage,
   data_source |-> source_name]

\* CraftsmanCoverageAnalyzer.generate_summary
generate_summary(analyses, source_name) ==
  Summary(Len(analyses), PropertiesWithGaps(analyses), TotalGaps(analyses),
          AverageCoverage(analyses),
          LowestCoverage(SortedByGapCount(CountGaps(<<>>, GapCategories(analyses)))),
          source_name)

\* ---------------------------------------------------------------------
\* Input texts
\* ---------------------------------------------------------------------

RECURSIVE JoinWith(_, _)
JoinWith(parts, sep) ==
  IF parts = <<>> THEN <<>>
  ELSE IF Len(parts) = 1 THEN parts[1]
  ELSE parts[1] \o sep \o JoinWith(Tail(parts), sep)

\* all strings over the alphabet of length at most n
RECURSIVE StringsUpTo(_, _)
StringsUpTo(alphabet, n) ==
  IF n = 0 THEN {<<>>}
  ELSE LET shorter == StringsUpTo(alphabet, n - 1) IN
       shorter \cup {Append(w, c) : w \in shorter, c \in alphabet}

Sp == <<" ">>

Slash == <<"/">>

\* "Badenerstr."
Badenerstr == <<"B", "a", "d", "e", "n", "e", "r", "s", "t", "r", ".">>

\* "Badenerstrasse"
Badenerstrasse ==
  <<"B", "a", "d", "e", "n", "e", "r", "s", "t", "r", "a", "s", "s", "e">>

\* "Im Struppen"
ImStruppen == <<"I", "m", " ", "S", "t", "r", "u", "p", "p", "e", "n">>

\* "Holeoholzweg"
Holeoholzweg ==
  <<"H", "o", "l", "e", "o", "h", "o", "l", "z", "w", "e", "g">>

\* "Weg"
Weg == <<"W", "e", "g">>

\* "Calandastrasse"
Calandastrasse ==
  <<"C", "a", "l", "a", "n", "d", "a", "s", "t", "r", "a", "s", "s", "e">>

\* "Calandastr."
CalandastrDot == <<"C", "a", "l", "a", "n", "d", "a", "s", "t", "r", ".">>

\* "calandastr"
calandastr == <<"c", "a", "l", "a", "n", "d", "a", "s", "t", "r">>

\* "Strassestrasse"
Strassestrasse ==
  <<"S", "t", "r", "a", "s", "s", "e", "s", "t", "r", "a", "s", "s", "e">>

\* "8048 Zuerich" (u-umlaut)
PlzCity == <<"8", "0", "4", "8", " ", "Z", "U+00FC", "r", "i", "c", "h">>

\* "Badenerstr. 727"
Badenerstr727 == Badenerstr \o Sp \o ToStr(727)

\* "Badenerstr. 717/719/721, 8048 Zuerich"
BadenerList3 ==
  Badenerstr \o Sp \o JoinWith(<<ToStr(717), ToStr(719), ToStr(721)>>, Slash)
  \o <<",", " ">> \o PlzCity

\* "Badenerstr. 717/719/721/727, 8048 Zuerich"
BadenerList4 ==
  Badenerstr \o Sp
  \o JoinWith(<<ToStr(717), ToStr(719), ToStr(721), ToStr(727)>>, Slash)
  \o <<",", " ">> \o PlzCity

\* "Holeoholzweg 61/63/65/67"
HoleoholzwegList ==
  Holeoholzweg \o Sp
  \o JoinWith(<<ToStr(61), ToStr(63), ToStr(65), ToStr(67)>>, Slash)

\* "Im Struppen 1-13"
ImStruppen1to13 == ImStruppen \o Sp \o ToStr(1) \o <<"-">> \o ToStr(13)

\* "Wille-Str."
WilleStr == <<"W", "i", "l", "l", "e", "-", "S", "t", "r", ".">>

\* "Weg 1, 2, 3"
WegCommaList == Weg \o Sp \o JoinWith(<<ToStr(1), ToStr(2), ToStr(3)>>, <<",", " ">>)

\* "Im Struppen 8 11"
StruppenSpaceList == ImStruppen \o Sp \o ToStr(8) \o Sp \o ToStr(11)

\* --- street names for _normalize_street ---

MaxAffixLen == 1

StreetAlphabet == {"a", "S", ".", " ", "-", "e"}

StreetStems ==
  { <<>>, strasse, strasze, str,
    <<"S", "t", "r", "a", "s", "s", "e">>,
    <<"S", "T", "R", "A", "S", "S", "E">>,
    <<"s", "t", "r", ".">>,
    <<"s", "t", "r", "a", "s", "-", "s", "e">>,
    <<"s", "t", "r", "a", "s", "s", "e", ".">>,
    <<"S", "t", "r", "a", " ", "U+00DF", "e">>,
    <<"s", "t", "r", "a", "s", "s">>,
    Strassestrasse }

StreetInputs ==
  {Calandastrasse, CalandastrDot, calandastr, Badenerstr, Badenerstrasse,
   ImStruppen, WilleStr}
  \cup {p \o s \o q : p \in StringsUpTo(StreetAlphabet, MaxAffixLen),
                      s \in StreetStems,
                      q \in StringsUpTo(StreetAlphabet, MaxAffixLen)}

\* --- texts for extract_numbers ---

MaxTextLen == 3

TextAlphabet == {"1", "2", "/", "-", " ", ",", "a"}

ShortTexts == StringsUpTo(TextAlphabet, MaxTextLen)

MaxRangeNum == 2

RangeStreets == {ImStruppen, WilleStr}

RangeNumbers ==
  {ToStr(n) : n \in 0..MaxRangeNum}
  \cup {<<"0", "8">>, ToStr(13), ToStr(999), ToStr(1001)}

OptionalSpace == {<<>>, Sp}

\* "A N1-N2": street text, N1, a dash-like glyph with optional spaces, N2
RangeText(A, n1, s1, d, s2, n2) == A \o Sp \o n1 \o s1 \o <<d>> \o s2 \o n2

RangeTexts ==
  {RangeText(A, n1, s1, d, s2, n2) :
     A \in RangeStreets, n1 \in RangeNumbers, s1 \in OptionalSpace,
     d \in Dashes, s2 \in OptionalSpace, n2 \in RangeNumbers}

ListSeparators == {Slash, <<",", " ">>, Sp, <<",">>}

ListNumbers ==
  { <<ToStr(717), ToStr(719), ToStr(721)>>,
    <<ToStr(8), ToStr(11)>>,
    <<ToStr(61), ToStr(1234), ToStr(5)>>,
    <<ToStr(8048), ToStr(12345)>> }

ListTails == {<<>>, <<",", " ">> \o PlzCity, Slash}

\* a street, then numbers joined by one separator, then a tail
ListTexts ==
  {A \o Sp \o JoinWith(ns, sep) \o t :
     A \in {Weg, Badenerstr}, ns \in ListNumbers, sep \in ListSeparators,
     t \in ListTails}

\* "8048 12, 5": a part that holds a long number before a short one
LongThenShort == ToStr(8048) \o Sp \o ToStr(12) \o <<",", " ">> \o ToStr(5)

ExampleTexts ==
  {ImStruppen1to13, HoleoholzwegList, Badenerstr727, BadenerList3,
   BadenerList4, PlzCity, Badenerstr, LongThenShort}

Texts == ExampleTexts \cup RangeTexts \cup ListTexts \cup ShortTexts

\* --- the corpora a FormatLearner learns from ---

MaxLearnCalls == 1

Corpora ==
  { <<BadenerList3>>,
    <<WegCommaList, StruppenSpaceList>>,
    << <<"1", ",", "2", " ", "1">>, <<"2", ",", "1">>, <<"1", "a", "2", "-", "1">> >> }

\* ---------------------------------------------------------------------
\* State
\* ---------------------------------------------------------------------

VARIABLES
  properties,         \* CraftsmanCoverageAnalyzer.properties
  categories,         \* CraftsmanCoverageAnalyzer.categories
  craftsmen,          \* CraftsmanCoverageAnalyzer.craftsmen, in dict order
  number_separators,  \* FormatLearner.number_separators
  learn_calls,        \* the number of learn_from_service_areas calls made
  pc,                 \* the position of the run
  op,                 \* the operation that returned last
  arg,                \* its argument
  ret                 \* its result

vars ==
  <<properties, categories, craftsmen, number_separators, learn_calls,
    pc, op, arg, ret>>

\* ---------------------------------------------------------------------
\* A street name is normalized
\* ---------------------------------------------------------------------

InitStreet ==
  /\ properties = <<>>
  /\ categories = <<>>
  /\ craftsmen = <<>>
  /\ number_separators = EmptyTable
  /\ learn_calls = 0
  /\ pc = "input"
  /\ op = "none"
  /\ arg \in StreetInputs
  /\ ret = <<>>

NormalizeStreet ==
  /\ pc = "input"
  /\ pc' = "returned"
  /\ op' = "_normalize_street"
  /\ ret' = _normalize_street(arg)
  /\ UNCHANGED <<properties, categories, craftsmen, number_separators,
                 learn_calls, arg>>

NextStreet == NormalizeStreet

SpecStreet == InitStreet /\ [][NextStreet]_vars

\* ---------------------------------------------------------------------
\* A FormatLearner learns, then extracts the numbers of a text
\* ---------------------------------------------------------------------

InitNumbers ==
  /\ properties = <<>>
  /\ categories = <<>>
  /\ craftsmen = <<>>
  /\ number_separators = EmptyTable
  /\ learn_calls = 0
  /\ pc = "input"
  /\ op = "none"
  /\ arg \in Texts
  /\ ret = <<>>

Learn(service_areas) ==
  /\ pc = "input"
  /\ learn_calls < MaxLearnCalls
  /\ learn_calls' = learn_calls + 1
  /\ number_separators' =
       learn_from_service_areas(number_separators, service_areas)
  /\ UNCHANGED <<properties, categories, craftsmen, pc, op, arg, ret>>

ExtractNumbers ==
  /\ pc = "input"
  /\ pc' = "returned"
  /\ op' = "extract_numbers"
  /\ ret' = extract_numbers(number_separators, arg)
  /\ UNCHANGED <<properties, categories, craftsmen, number_separators,
                 learn_calls, arg>>

NextNumbers ==
  \/ \E service_areas \in Corpora : Learn(service_areas)
  \/ ExtractNumbers

SpecNumbers == InitNumbers /\ [][NextNumbers]_vars

\* ---------------------------------------------------------------------
\* A FormatLearner learns more than once, then extracts the numbers of a
\* text
\* ---------------------------------------------------------------------

MaxRelearnCalls == 2

RelearnTexts == ExampleTexts \cup ListTexts \cup {WegCommaList, StruppenSpaceList}

InitRelearn ==
  /\ properties = <<>>
  /\ categories = <<>>
  /\ craftsmen = <<>>
  /\ number_separators = EmptyTable
  /\ learn_calls = 0
  /\ pc = "input"
  /\ op = "none"
  /\ arg \in RelearnTexts
  /\ ret = <<>>

\* learn_from_service_areas called on a learner that may have learned before
Relearn(service_areas) ==
  /\ pc = "input"
  /\ learn_calls < MaxRelearnCalls
  /\ learn_calls' = learn_calls + 1
  /\ number_separators' =
       learn_from_service_areas(number_separators, service_areas)
  /\ UNCHANGED <<properties, categories, craftsmen, pc, op, arg, ret>>

NextRelearn ==
  \/ \E service_areas \in Corpora : Relearn(service_areas)
  \/ ExtractNumbers

SpecRelearn == InitRelearn /\ [][NextRelearn]_vars

\* ---------------------------------------------------------------------
\* An analysis run: the analyzer is constructed, then queried
\* ---------------------------------------------------------------------

MatchProperty(property_address, service_area) ==
  /\ pc \in {"input", "ready"}
  /\ pc' = "returned"
  /\ op' = "match_property"
  /\ arg' = <<property_address, service_area>>
  /\ ret' = match_property(number_separators, property_address, service_area)
  /\ UNCHANGED <<properties, categories, craftsmen, number_separators,
                 learn_calls>>

\* "Badenerstr. 727 8048"
Badenerstr727Plz == Badenerstr727 \o Sp \o ToStr(8048)

\* "Badenerstrasse 727"
Badenerstrasse727 == Badenerstrasse \o Sp \o ToStr(727)

\* "Im Struppen 8"
ImStruppen8 == ImStruppen \o Sp \o ToStr(8)

\* "Calandastrasse 16 8048"
Calandastrasse16Plz == Calandastrasse \o Sp \o ToStr(16) \o Sp \o ToStr(8048)

\* "Weg 3"
Weg3 == Weg \o Sp \o ToStr(3)

\* "Badenerstrasse 717/719/721, 8048 Zuerich"
BadenerstrasseList3 ==
  Badenerstrasse \o Sp
  \o JoinWith(<<ToStr(717), ToStr(719), ToStr(721)>>, Slash)
  \o <<",", " ">> \o PlzCity

\* "Badenerstrasse 717/719/721/727, 8048 Zuerich"
BadenerstrasseList4 ==
  Badenerstrasse \o Sp
  \o JoinWith(<<ToStr(717), ToStr(719), ToStr(721), ToStr(727)>>, Slash)
  \o <<",", " ">> \o PlzCity

\* "Calandastr. 14/16"
CalandastrList == CalandastrDot \o Sp \o ToStr(14) \o Slash \o ToStr(16)

\* "Badenerstrasse 1001"
Badenerstrasse1001 == Badenerstrasse \o Sp \o ToStr(1001)

\* "Badenerstr. 999/1001"
BadenerList1001 == Badenerstr \o Sp \o ToStr(999) \o Slash \o ToStr(1001)

\* "Badenerstr. 717\t\nIm Struppen 8" (two lines of one sheet cell)
TwoLines == Badenerstr \o Sp \o ToStr(717) \o <<"\t", "\n">> \o ImStruppen8

\* "Badener 727"
Badener727 == SubSeq(Badenerstr, 1, 7) \o Sp \o ToStr(727)

PropertyPool ==
  {Badenerstr727, Badenerstr727Plz, Badenerstrasse727, Badenerstrasse1001,
   ImStruppen8, Calandastrasse16Plz, Weg3}

\* "wegacker 3"
Wegacker3Lower == Lower(Weg) \o <<"a", "c", "k", "e", "r">> \o Sp \o ToStr(3)

DescriptorPool ==
  {BadenerList3, BadenerList4, BadenerstrasseList3, BadenerstrasseList4,
   Badenerstr, Badenerstr727, ImStruppen1to13, ToStr(8048), CalandastrList,
   BadenerList1001, WegCommaList, TwoLines, Badener727, Wegacker3Lower}

CategoryPool == {"Elektriker", "Maler"}

CategoryLists == {<<>>, <<"Elektriker">>, <<"Elektriker", "Maler">>}

ProviderCategories == {<<"Elektriker">>, <<"Elektriker", "Maler">>}

AreaLists ==
  {<<>>} \cup {<<d>> : d \in DescriptorPool}
  \cup {<<ImStruppen1to13, BadenerList4>>, <<ToStr(8048), BadenerstrasseList3>>,
        <<WegCommaList, StruppenSpaceList>>}

\* <<categories, service areas>> of the first provider of the dict
FirstProviders == ProviderCategories \X AreaLists

\* <<categories, service areas>> of the providers after the first
ExtraProviders == { <<(<<"Maler">>), <<>> >> }

\* the properties after the first
ExtraProperties == {Weg3}

ProviderNames == <<"X", "Y", "Z", "W">>

MaxCraftsmen == 2

MaxProperties == 1

\* the sequences of length n over a set
RECURSIVE SeqsOfLen(_, _)
SeqsOfLen(S, n) ==
  IF n = 0 THEN {<<>>}
  ELSE {Append(w, x) : w \in SeqsOfLen(S, n - 1), x \in S}

Provider(name, template) ==
  [name |-> name, categories |-> template[1], service_areas_plz |-> template[2]]

\* the provider dicts: no provider, or a first provider and up to
\* MaxCraftsmen - 1 providers after it, with distinct names
CraftsmenDicts ==
  {<<>>}
  \cup UNION {{[i \in 1..(n + 1) |->
                  Provider(ProviderNames[i], IF i = 1 THEN first ELSE more[i - 1])] :
                first \in FirstProviders, more \in SeqsOfLen(ExtraProviders, n)} :
             n \in 0..(MaxCraftsmen - 1)}

\* the property lists: a first property and up to MaxProperties - 1 after it
PropertyLists ==
  UNION {{<<first>> \o more :
            first \in PropertyPool, more \in SeqsOfLen(ExtraProperties, n)} :
         n \in 0..(MaxProperties - 1)}

\* ---------------------------------------------------------------------
\* An AdaptiveMatcher learns, then matches a property to a service area
\* ---------------------------------------------------------------------

\* "Badenerstr. 717 / 719 / 727"
BadenerSpacedList ==
  Badenerstr \o Sp \o JoinWith(<<ToStr(717), ToStr(719), ToStr(727)>>, <<" ", "/", " ">>)

\* "Badenerstrasse 727 / Im Struppen 8"
TwoStreets == Badenerstrasse727 \o <<" ", "/", " ">> \o ImStruppen8

\* "Badenerstr.717/Im Struppen 8, 8048 Zuerich"
TwoStreetsTight ==
  Badenerstr \o ToStr(717) \o Slash \o ImStruppen8 \o <<",", " ">> \o PlzCity

\* "8048 Zuerich, Weg 3"
PlzCityWeg3 == PlzCity \o <<",", " ">> \o Weg3

\* "3, Weg"
NumberThenStreet == ToStr(3) \o <<",", " ">> \o Weg

\* "Calandastrasse, 16"
CalandaComma16 == Calandastrasse \o <<",", " ">> \o ToStr(16)

\* "weg 03"
LowerWeg03 == Lower(Weg) \o Sp \o <<"0", "3">>

\* "Badenerstr. 717"
Badenerstr717 == Badenerstr \o Sp \o ToStr(717)

MatcherProperties ==
  PropertyPool \cup {Badenerstr, Badenerstrasse, LowerWeg03, Badenerstr717, <<>>}

MatcherDescriptors ==
  DescriptorPool
  \cup {BadenerSpacedList, TwoStreets, TwoStreetsTight, PlzCityWeg3,
        NumberThenStreet, Badener727, CalandaComma16, Badenerstrasse,
        ImStruppen8, PlzCity, <<>>}

InitMatcher ==
  /\ properties = <<>>
  /\ categories = <<>>
  /\ craftsmen = <<>>
  /\ number_separators = EmptyTable
  /\ learn_calls = 0
  /\ pc = "input"
  /\ op = "none"
  /\ arg = <<>>
  /\ ret = <<>>

NextMatcher ==
  \/ \E service_areas \in Corpora : Learn(service_areas)
  \/ \E p \in MatcherProperties, d \in MatcherDescriptors : MatchProperty(p, d)

SpecMatcher == InitMatcher /\ [][NextMatcher]_vars

\* ---------------------------------------------------------------------
\* A tokenizer, a segment parser and a matcher work on one text
\* ---------------------------------------------------------------------

\* "8048 zuerich" in lower case
PlzLowerCity == Lower(PlzCity)

\* "88662 Ueberlingen", with a capital U umlaut
PlzUmlautCity ==
  ToStr(88662) \o <<" ", "U+00DC", "b", "e", "r", "l", "i", "n", "g", "e", "n">>

\* "Zuerich"
City == SubSeq(PlzCity, 6, Len(PlzCity))

\* "123456 Z"
SixDigitsCity == ToStr(123456) \o <<" ", "Z">>

\* "8048\tZuerich\n"
PlzTabCity == ToStr(8048) \o <<"\t">> \o City \o <<"\n">>

\* "8048\nZuerich": a postal code and a city on two lines
PlzNewlineCity == ToStr(8048) \o <<"\n">> \o City

\* "8048 Zuerich / Weg 3"
PlzCitySlashWeg3 == PlzCity \o <<" ", "/", " ">> \o Weg3

\* "8 / 9"
NumbersSpaced == ToStr(8) \o <<" ", "/", " ">> \o ToStr(9)

\* "Weg 1 / 3a"
WegSpacedSuffix == Weg \o Sp \o ToStr(1) \o <<" ", "/", " ">> \o <<"3", "a">>

\* "Weg 1 / 3-5"
WegSpacedRange == Weg \o Sp \o ToStr(1) \o <<" ", "/", " ">> \o <<"3", "-", "5">>

\* "Weg 3, Im Struppen 8"
WegThenStruppen == Weg3 \o <<",", " ">> \o ImStruppen8

\* "8048, Weg 3"
PlzThenWeg3 == ToStr(8048) \o <<",", " ">> \o Weg3

\* "Weg, 3, Calandastrasse, 16, Zuerich"
TwoStreetsCommas ==
  JoinWith(<<Weg, ToStr(3), Calandastrasse, ToStr(16), City>>, <<",", " ">>)

SegmentTexts ==
  ShortTexts \cup MatcherDescriptors
  \cup {PlzLowerCity, PlzUmlautCity, City, SixDigitsCity, PlzTabCity,
        PlzNewlineCity, Weg, <<"0", "0", "7">>, <<" ", "\t", "\n">>}

ParserTexts ==
  SegmentTexts
  \cup {PlzCitySlashWeg3, NumbersSpaced, WegSpacedSuffix, WegSpacedRange,
        WegThenStruppen, PlzThenWeg3, TwoStreetsCommas}

ParseSegment(segment) ==
  /\ pc = "input"
  /\ pc' = "returned"
  /\ op' = "parse_segment"
  /\ arg' = segment
  /\ ret' = parse_segment(number_separators, segment)
  /\ UNCHANGED <<properties, categories, craftsmen, number_separators,
                 learn_calls>>

DetectFormat(area) ==
  /\ pc = "input"
  /\ pc' = "returned"
  /\ op' = "_detect_format"
  /\ arg' = area
  /\ ret' = _detect_format(area)
  /\ UNCHANGED <<properties, categories, craftsmen, number_separators,
                 learn_calls>>

Tokenize(text) ==
  /\ pc = "input"
  /\ pc' = "returned"
  /\ op' = "tokenize"
  /\ arg' = text
  /\ ret' = tokenize(number_separators, text)
  /\ UNCHANGED <<properties, categories, craftsmen, number_separators,
                 learn_calls>>

\* _parse_by_format as match_property calls it: with the detected format
ParseByFormat(area) ==
  /\ pc = "input"
  /\ pc' = "returned"
  /\ op' = "_parse_by_format"
  /\ arg' = area
  /\ ret' = _parse_by_format(number_separators, area, _detect_format(area))
  /\ UNCHANGED <<properties, categories, craftsmen, number_separators,
                 learn_calls>>

NextParser ==
  \/ \E service_areas \in Corpora : Learn(service_areas)
  \/ \E segment \in SegmentTexts : ParseSegment(segment)
  \/ \E area \in ParserTexts : DetectFormat(area)
  \/ \E text \in ParserTexts : Tokenize(text)
  \/ \E area \in ParserTexts : ParseByFormat(area)

SpecParser == InitMatcher /\ [][NextParser]_vars

\* ---------------------------------------------------------------------
\* A list of analyses is summarized
\* ---------------------------------------------------------------------

SummaryCategories ==
  <<"Elektriker", "Maler", "Schlosser", "Schreiner", "Bodenleger",
    "Kanalreiniger", "Ungeziefer">>

\* the categories a property has a gap in, in category order
GapLists ==
  {<<>>, SummaryCategories, <<"Ungeziefer">>, <<"Maler", "Kanalreiniger">>,
   <<"Schreiner", "Kanalreiniger", "Ungeziefer">>, <<"Kanalreiniger">>}

\* the PropertyCoverageAnalysis of a property with these gaps
AnalysisWithGaps(gap_categories) ==
  Analysis(Weg3, SummaryCategories,
           [i \in DOMAIN SummaryCategories |->
              IF \E k \in DOMAIN gap_categories :
                   gap_categories[k] = SummaryCategories[i]
              THEN <<>> ELSE <<"X">>])

MaxAnalyses == 3

AnalysisLists ==
  UNION {{[i \in 1..n |-> AnalysisWithGaps(gaps[i])] :
            gaps \in SeqsOfLen(GapLists, n)} : n \in 0..MaxAnalyses}

SourceNames == {"Static Sample Data (Fallback)"}

InitSummary ==
  /\ properties = <<>>
  /\ categories = SummaryCategories
  /\ craftsmen = <<>>
  /\ number_separators = EmptyTable
  /\ learn_calls = 0
  /\ pc = "input"
  /\ op = "none"
  /\ arg \in AnalysisLists
  /\ ret = <<>>

GenerateSummary(source_name) ==
  /\ pc = "input"
  /\ pc' = "returned"
  /\ op' = "generate_summary"
  /\ ret' = generate_summary(arg, source_name)
  /\ UNCHANGED <<properties, categories, craftsmen, number_separators,
                 learn_calls, arg>>

NextSummary == \E source_name \in SourceNames : GenerateSummary(source_name)

SpecSummary == InitSummary /\ [][NextSummary]_vars

Init ==
  /\ properties \in PropertyLists
  /\ categories \in CategoryLists
  /\ craftsmen \in CraftsmenDicts
  /\ number_separators = EmptyTable
  /\ learn_calls = 0
  /\ pc = "new"
  /\ op = "none"
  /\ arg = <<>>
  /\ ret = <<>>

\* a constructor that has the format learner learn whether or not there is
\* a service area
Construct_learns_always ==
  /\ pc = "new"
  /\ pc' = "ready"
  /\ number_separators' =
       learn_from_service_areas(number_separators, AllServiceAreas(craftsmen))
  /\ learn_calls' = learn_calls + 1
  /\ UNCHANGED <<properties, categories, craftsmen, op, arg, ret>>

\* CraftsmanCoverageAnalyzer.__init__: the format learner learns from the
\* service areas of all craftsmen, when there are any
Construct ==
  /\ pc = "new"
  /\ pc' = "ready"
  /\ IF AllServiceAreas(craftsmen) # <<>>
     THEN /\ number_separators' =
               learn_from_service_areas(number_separators,
                                        AllServiceAreas(craftsmen))
          /\ learn_calls' = learn_calls + 1
     ELSE UNCHANGED <<number_separators, learn_calls>>
  /\ UNCHANGED <<properties, categories, craftsmen, op, arg, ret>>

\* a query that has the format learner learn the service areas again
FindCraftsmen_relearns(property_address, category) ==
  /\ pc = "ready"
  /\ pc' = "returned"
  /\ op' = "find_craftsmen_for_property_and_category"
  /\ arg' = <<property_address, category>>
  /\ number_separators' =
       learn_from_service_areas(number_separators, AllServiceAreas(craftsmen))
  /\ ret' = find_craftsmen_for_property_and_category(
              number_separators', craftsmen, property_address, category)
  /\ UNCHANGED <<properties, categories, craftsmen, learn_calls>>

FindCraftsmen(property_address, category) ==
  /\ pc = "ready"
  /\ pc' = "returned"
  /\ op' = "find_craftsmen_for_property_and_category"
  /\ arg' = <<property_address, category>>
  /\ ret' = find_craftsmen_for_property_and_category(
              number_separators, craftsmen, property_address, category)
  /\ UNCHANGED <<properties, categories, craftsmen, number_separators,
                 learn_calls>>

AnalyzeProperty(property_address) ==
  /\ pc = "ready"
  /\ pc' = "returned"
  /\ op' = "analyze_property"
  /\ arg' = property_address
  /\ ret' = analyze_property(number_separators, craftsmen, categories,
                             property_address)
  /\ UNCHANGED <<properties, categories, craftsmen, number_separators,
                 learn_calls>>

AnalyzeAllProperties ==
  /\ pc = "ready"
  /\ pc' = "returned"
  /\ op' = "analyze_all_properties"
  /\ arg' = <<>>
  /\ ret' = analyze_all_properties(number_separators, craftsmen, categories,
                                   properties)
  /\ UNCHANGED <<properties, categories, craftsmen, number_separators,
                 learn_calls>>

\* the analyzer's format learner asked for the numbers of a text
ExtractNumbersOf(text) ==
  /\ pc = "ready"
  /\ pc' = "returned"
  /\ op' = "extract_numbers"
  /\ arg' = text
  /\ ret' = extract_numbers(number_separators, text)
  /\ UNCHANGED <<properties, categories, craftsmen, number_separators,
                 learn_calls>>

FindUnmatchedServiceAreas ==
  /\ pc = "ready"
  /\ pc' = "returned"
  /\ op' = "find_unmatched_service_areas"
  /\ arg' = <<>>
  /\ ret' = find_unmatched_service_areas(number_separators, craftsmen, properties)
  /\ UNCHANGED <<properties, categories, craftsmen, number_separators,
                 learn_calls>>

FindMissingProperties ==
  /\ pc = "ready"
  /\ pc' = "returned"
  /\ op' = "find_missing_properties"
  /\ arg' = <<>>
  /\ ret' = find_missing_properties(number_separators, craftsmen, properties)
  /\ UNCHANGED <<properties, categories, craftsmen, number_separators,
                 learn_calls>>

\* the caller drops the result and goes on to its next query
NextQuery ==
  /\ pc = "returned"
  /\ pc' = "ready"
  /\ op' = "none"
  /\ arg' = <<>>
  /\ ret' = <<>>
  /\ UNCHANGED <<properties, categories, craftsmen, number_separators,
                 learn_calls>>

Next ==
  \/ Construct
  \/ \E p \in Range(properties), c \in CategoryPool : FindCraftsmen(p, c)
  \/ \E p \in Range(properties) : AnalyzeProperty(p)
  \/ AnalyzeAllProperties
  \/ \E text \in Range(properties) \cup Range(AllServiceAreas(craftsmen)) :
       ExtractNumbersOf(text)
  \/ \E p \in Range(properties), d \in Range(AllServiceAreas(craftsmen)) :
       MatchProperty(p, d)
  \/ FindUnmatchedServiceAreas
  \/ FindMissingProperties
  \/ NextQuery

Spec == Init /\ [][Next]_vars

\* ---------------------------------------------------------------------
\* Properties of CraftsmanCoverageAnalyzer
\* ---------------------------------------------------------------------

\* the spellings of each street of the pools
StreetSpellings ==
  { {Badenerstr, Badenerstrasse}, {Calandastrasse, CalandastrDot},
    {ImStruppen}, {Weg} }

Spellings == UNION StreetSpellings

\* two spellings of one street
SameStreet(a, b) == \E S \in StreetSpellings : a \in S /\ b \in S

\* the house numbers a property of the pools has
HouseNumbers == {ToStr(727), ToStr(1001), ToStr(8), ToStr(16), ToStr(3)}

\* the '/'-joined house-number lists of the pools
HouseNumberLists ==
  { <<ToStr(717), ToStr(719), ToStr(721)>>,
    <<ToStr(717), ToStr(719), ToStr(721), ToStr(727)>>,
    <<ToStr(999), ToStr(1001)>>,
    <<ToStr(14), ToStr(16)>> }

\* the address is the street spelling, the house number and maybe a postal code
PropertyAt(address, spelling, n) ==
  \E t \in {<<>>, Sp \o ToStr(8048)} : address = spelling \o Sp \o n \o t

\* the descriptor is the street spelling, the house numbers joined by '/',
\* and maybe a postal code and city
SlashList(descriptor, spelling, ns) ==
  \E t \in {<<>>, <<",", " ">> \o PlzCity} :
    descriptor = spelling \o Sp \o JoinWith(ns, Slash) \o t

\* the analyzer of the end-to-end example: one category, one property, one
\* provider "X" whose only service area is the descriptor
ExampleSetup(descriptor) ==
  /\ categories = <<"Elektriker">>
  /\ properties = <<Badenerstr727>>
  /\ craftsmen = <<[name |-> "X", categories |-> <<"Elektriker">>,
                    service_areas_plz |-> <<descriptor>>]>>

\* C1: with categories ["Elektriker"], properties ["Badenerstr. 727"] and one
\* provider of "Elektriker" whose only service area is
\* "Badenerstr. 717/719/721, 8048 Zuerich", analyze_property("Badenerstr. 727")
\* returns exactly one gap, for "Elektriker"; and a provider whose only
\* descriptor lists explicit house numbers of the property's street, the
\* property's number not among them, is not returned for the property.
C1_ExplicitListExcludesOtherNumbers ==
  /\ op = "analyze_property" /\ arg = Badenerstr727 /\ ExampleSetup(BadenerList3)
       => ret.gaps = <<[category |-> "Elektriker", responsible_craftsmen |-> <<>>]>>
  /\ op = "find_craftsmen_for_property_and_category" =>
       \A i \in DOMAIN craftsmen :
         (\E a \in Spellings, b \in Spellings, n \in HouseNumbers,
             ns \in HouseNumberLists :
            /\ SameStreet(a, b)
            /\ PropertyAt(arg[1], a, n)
            /\ Len(craftsmen[i].service_areas_plz) = 1
            /\ SlashList(craftsmen[i].service_areas_plz[1], b, ns)
            /\ n \notin Range(ns))
         => craftsmen[i].name \notin Range(ret)

\* C2: with the setup of C1 and the descriptor
\* "Badenerstr. 717/719/721/727, 8048 Zuerich", analyze_property("Badenerstr.
\* 727") returns zero gaps and coverage_percentage 100; and a provider that
\* lists the queried category and has a descriptor naming the property's
\* street (in any of its spellings) with the property's house number, of at
\* most 3 digits, in its '/'-joined list is returned for the property.
C2_SlashListCoversListedNumber ==
  /\ op = "analyze_property" /\ arg = Badenerstr727 /\ ExampleSetup(BadenerList4)
       => /\ ret.gaps = <<>>
          /\ ret.coverage_percentage[1] = 100 * ret.coverage_percentage[2]
  /\ op = "find_craftsmen_for_property_and_category" =>
       \A i \in DOMAIN craftsmen :
         (/\ arg[2] \in Range(craftsmen[i].categories)
          /\ \E a \in Spellings, b \in Spellings, n \in HouseNumbers,
                ns \in HouseNumberLists,
                k \in DOMAIN craftsmen[i].service_areas_plz :
               /\ SameStreet(a, b)
               /\ PropertyAt(arg[1], a, n)
               /\ SlashList(craftsmen[i].service_areas_plz[k], b, ns)
               /\ n \in Range(ns)
               /\ Len(n) <= MaxHouseDigits)
         => craftsmen[i].name \in Range(ret)

\* "Badenerstr. 727 8048" was found covered by the provider of
\* "Badenerstrasse 717/719/721/727, 8048 Zuerich": the descriptor does not
\* hold the property's street text, the street names agree once normalized
C2_Witness ==
  /\ op = "find_craftsmen_for_property_and_category"
  /\ arg = <<Badenerstr727Plz, "Elektriker">>
  /\ craftsmen # <<>>
  /\ craftsmen[1].service_areas_plz = <<BadenerstrasseList4>>
  /\ ~Contains(BadenerstrasseList4, extract_street_name(Badenerstr727Plz))
  /\ craftsmen[1].name \in Range(ret)

\* C2 as the specification states it, for house numbers of any length: a
\* provider that lists the queried category and has a descriptor naming the
\* property's street with the property's house number in its '/'-joined list
\* is returned for the property.
C2_AnyHouseNumber ==
  op = "find_craftsmen_for_property_and_category" =>
    \A i \in DOMAIN craftsmen :
      (/\ arg[2] \in Range(craftsmen[i].categories)
       /\ \E a \in Spellings, b \in Spellings, n \in HouseNumbers,
             ns \in HouseNumberLists,
             k \in DOMAIN craftsmen[i].service_areas_plz :
            /\ SameStreet(a, b)
            /\ PropertyAt(arg[1], a, n)
            /\ SlashList(craftsmen[i].service_areas_plz[k], b, ns)
            /\ n \in Range(ns))
      => craftsmen[i].name \in Range(ret)

\* C3: a provider whose service-area list is empty is in the result of
\* find_craftsmen_for_property_and_category for every property address and
\* every category the provider lists, whatever the other providers and the
\* separator table are.
C3_EmptyAreasServeEverywhere ==
  op = "find_craftsmen_for_property_and_category" =>
    \A i \in DOMAIN craftsmen :
      /\ craftsmen[i].service_areas_plz = <<>>
      /\ arg[2] \in Range(craftsmen[i].categories)
      => craftsmen[i].name \in Range(ret)

\* the second of two providers has no service area and was returned, the
\* first one was not, and the separator table holds learned separators
C3_Witness ==
  /\ op = "find_craftsmen_for_property_and_category"
  /\ Len(craftsmen) = 2
  /\ craftsmen[2].service_areas_plz = <<>>
  /\ number_separators # EmptyTable
  /\ ret = <<craftsmen[2].name>>

\* C4: find_craftsmen_for_property_and_category never returns a provider
\* whose categories do not contain the queried category, whatever the
\* property and the provider's service areas (the empty list included).
C4_OnlyProvidersOfTheCategory ==
  op = "find_craftsmen_for_property_and_category" =>
    \A i \in DOMAIN craftsmen :
      arg[2] \notin Range(craftsmen[i].categories)
      => craftsmen[i].name \notin Range(ret)

\* a provider without service areas that does not list the queried category
\* was left out, while the other provider was returned
C4_Witness ==
  /\ op = "find_craftsmen_for_property_and_category"
  /\ \E i \in DOMAIN craftsmen :
       /\ craftsmen[i].service_areas_plz = <<>>
       /\ arg[2] \notin Range(craftsmen[i].categories)
       /\ craftsmen[i].name \notin Range(ret)
  /\ ret # <<>>

\* C12: analyze_property returns a record in which gaps holds, in
\* category-list order, exactly the categories for which
\* find_craftsmen_for_property_and_category is empty, every gap carries an
\* empty provider list, covered_categories + len(gaps) = total_categories =
\* len(categories), and coverage_percentage = covered_categories /
\* total_categories * 100, which is 0 when the category list is empty.
C12_AnalysisRecord ==
  op = "analyze_property" =>
    LET uncovered ==
          SelectSeq(categories, LAMBDA c :
            find_craftsmen_for_property_and_category(
              number_separators, craftsmen, arg, c) = <<>>)
    IN /\ ret.property_name = arg
       /\ Len(ret.gaps) = Len(uncovered)
       /\ \A k \in DOMAIN ret.gaps :
            /\ ret.gaps[k].category = uncovered[k]
            /\ ret.gaps[k].responsible_craftsmen = <<>>
       /\ ret.covered_categories + Len(ret.gaps) = ret.total_categories
       /\ ret.total_categories = Len(categories)
       /\ IF categories = <<>>
          THEN ret.coverage_percentage[1] = 0
          ELSE ret.coverage_percentage[1] * ret.total_categories
               = ret.covered_categories * 100 * ret.coverage_percentage[2]

\* of two categories the first is covered and the second is a gap: 50 percent
C12_Witness ==
  /\ op = "analyze_property"
  /\ categories = <<"Elektriker", "Maler">>
  /\ ret.covered_categories = 1
  /\ Len(ret.gaps) = 1
  /\ ret.gaps[1].category = "Maler"
  /\ ret.coverage_percentage[1] = 50 * ret.coverage_percentage[2]

\* the numbers a text carries: its digit runs, leading zeros dropped, and
\* the numbers of the ranges and lists it writes
CarriedNumbers(table, text) ==
  {ToStr(ToInt(DigitRuns(text)[k])) : k \in DOMAIN DigitRuns(text)}
  \cup extract_numbers(table, text)

\* C14: for a property address that carries a house number,
\* find_craftsmen_for_property_and_category returns a provider with a
\* non-empty service-area list only if one of the provider's descriptors
\* carries a number equal to one of the property's house numbers; a provider
\* whose descriptors are bare street names is not returned for such a property.
C14_NumberMatchRequired ==
  op = "find_craftsmen_for_property_and_category" =>
    \A i \in DOMAIN craftsmen :
      (/\ craftsmen[i].name \in Range(ret)
       /\ craftsmen[i].service_areas_plz # <<>>
       /\ extract_apartment_numbers(number_separators, arg[1]) # {})
      => \E k \in DOMAIN craftsmen[i].service_areas_plz :
           CarriedNumbers(number_separators, craftsmen[i].service_areas_plz[k])
             \cap extract_apartment_numbers(number_separators, arg[1]) # {}

\* the operations that query an analyzer
QueryOperations ==
  {"find_craftsmen_for_property_and_category", "analyze_property",
   "analyze_all_properties", "find_unmatched_service_areas",
   "find_missing_properties", "extract_numbers", "match_property"}

\* C15: every query operation of the analyzer
\* (find_craftsmen_for_property_and_category, analyze_property,
\* analyze_all_properties, find_unmatched_service_areas,
\* find_missing_properties, extract_numbers, match_property) leaves the
\* separator table, every provider's categories and service-area list, the
\* category list and the property list as they were.
C15_QueriesChangeNothing ==
  [][op' \in QueryOperations =>
       UNCHANGED <<number_separators, craftsmen, categories, properties>>]_vars

\* a matching call has returned on an analyzer with a learned table
C15_Witness ==
  /\ op = "match_property"
  /\ pc = "returned"
  /\ number_separators # EmptyTable
  /\ craftsmen # <<>>
  /\ properties # <<>>

\* the table is what one learn call over all service areas makes of the
\* empty table
LearnedOnce ==
  number_separators =
    learn_from_service_areas(EmptyTable, AllServiceAreas(craftsmen))

\* learn calls are made by the constructor only, and a query runs on a
\* constructed analyzer
LearnBeforeQueries ==
  /\ [][learn_calls' # learn_calls => pc = "new" /\ pc' = "ready"]_vars
  /\ [][pc' = "new" => pc = "new"]_vars
  /\ [][op' \in QueryOperations => pc = "ready" /\ learn_calls' = learn_calls]_vars

\* C16: in every analysis run the constructor makes one learn call over the
\* concatenation of all providers' service areas when there is a service area
\* and none otherwise; the table is then the result of that call, before the
\* first matching call, and no learn call follows a matching call.
C16_OneLearnCallOverServiceAreas ==
  /\ [](pc # "new" =>
         /\ learn_calls = IF AllServiceAreas(craftsmen) # <<>> THEN 1 ELSE 0
         /\ LearnedOnce)
  /\ LearnBeforeQueries

\* the first query of a run, analyze_all_properties, has returned after the
\* one learn call of the constructor
C16_Witness ==
  /\ op = "analyze_all_properties"
  /\ pc = "returned"
  /\ learn_calls = 1
  /\ number_separators # EmptyTable
  /\ Len(craftsmen) = MaxCraftsmen

\* C16 as stated: in every analysis run the separator table is populated by
\* exactly one learn call over the concatenation of all providers' service
\* areas, made in the constructor and complete before the first matching
\* call, and no learn call happens after a matching call.
C16_ExactlyOneLearnCall ==
  /\ [](pc # "new" => learn_calls = 1 /\ LearnedOnce)
  /\ LearnBeforeQueries

\* ---------------------------------------------------------------------
\* Properties of AdaptiveMatcher.match_property
\* ---------------------------------------------------------------------

\* some parsed segment of the descriptor has a street whose normalized form
\* is the property's normalized street, and a number of the property
SegmentHitIn(prop_street, prop_numbers, parsed) ==
  \E segment \in Range(parsed) :
    /\ _normalize_street(segment.street) = _normalize_street(prop_street)
    /\ segment.numbers # {}
    /\ segment.numbers \cap prop_numbers # {}

SegmentHitOf(prop_tokens, parsed) ==
  SegmentHitIn(_extract_street_from_tokens(prop_tokens),
               _extract_numbers_from_tokens(prop_tokens), parsed)

SegmentHit(table, property_address, service_area) ==
  SegmentHitOf(tokenize(table, property_address),
               _parse_by_format(table, service_area, _detect_format(service_area)))

\* C13: match_property returns matched=true (with confidence 0.9 and reason
\* street_and_number_match) only when some parsed segment of the descriptor
\* has the property's street, normalized, and a non-empty number list sharing
\* a number with the property's numbers; a descriptor without any number
\* never matches; and when no segment matches the result is matched=false,
\* confidence 0.0, reason no_match.
C13_MatchNeedsStreetAndNumber ==
  op = "match_property" =>
    /\ ret.matched =>
         /\ SegmentHit(number_separators, arg[1], arg[2])
         /\ ret.confidence[1] * 10 = 9 * ret.confidence[2]
         /\ ret.reason = "street_and_number_match"
    /\ (\A i \in DOMAIN arg[2] : ~IsDigit(arg[2][i])) => ~ret.matched
    /\ ~SegmentHit(number_separators, arg[1], arg[2]) =>
         /\ ret.matched = FALSE
         /\ ret.confidence[1] = 0
         /\ ret.reason = "no_match"

\* "Calandastrasse 16 8048" matched "Calandastr. 14/16" under a table that has
\* learned separators
C13_Witness ==
  /\ op = "match_property"
  /\ arg = <<Calandastrasse16Plz, CalandastrList>>
  /\ number_separators # EmptyTable
  /\ ret.matched
  /\ ret.reason = "street_and_number_match"

\* ---------------------------------------------------------------------
\* Properties of the diagnostics
\* ---------------------------------------------------------------------

\* a string of at most 5 characters that are all digits
PurePostalCode(descriptor) ==
  /\ descriptor # <<>>
  /\ Len(descriptor) <= MaxPlzLen
  /\ \A i \in DOMAIN descriptor : IsDigit(descriptor[i])

\* C11: the mapping returned by find_missing_properties never has as a key a
\* descriptor that is purely a postal code, for any property list and
\* provider corpus, even when that descriptor matches no property.
C11_MissingPropertiesSkipPostalCodes ==
  op = "find_missing_properties" =>
    \A k \in DOMAIN ret : ~PurePostalCode(ret[k][1])

\* find_missing_properties returned other descriptors and left out "8048",
\* which matches no property and which find_unmatched_service_areas reports
C11_Witness ==
  /\ op = "find_missing_properties"
  /\ ret # <<>>
  /\ DictIndex(ret, ToStr(8048)) = 0
  /\ DictIndex(find_unmatched_service_areas(number_separators, craftsmen,
                                            properties), ToStr(8048)) # 0

\* C11 as the specification states it: the mapping returned by
\* find_unmatched_service_areas never has as a key a descriptor that is
\* purely a postal code.
C11_UnmatchedSkipPostalCodes ==
  op = "find_unmatched_service_areas" =>
    \A k \in DOMAIN ret : ~PurePostalCode(ret[k][1])

\* find_craftsmen_for_property_and_category would return, for some property
\* of the analyzer, a provider whose only service area is the descriptor
CoveredAlone(service_area) ==
  \E p \in Range(properties) :
    ServesProperty(number_separators,
                   [name |-> "X", categories |-> <<>>,
                    service_areas_plz |-> <<service_area>>], p)

\* the descriptor is a key of the returned dict
Reported(service_area) == \E j \in DOMAIN ret : ret[j][1] = service_area

\* C17: find_unmatched_service_areas and find_missing_properties match a
\* descriptor against a property by the rules of
\* find_craftsmen_for_property_and_category: a descriptor is reported as
\* unmatched exactly when no property would have a provider with that one
\* descriptor included, and as missing exactly when, besides, it is not a
\* bare postal code.
C17_DiagnosticsMatchLikeCoverage ==
  \A i \in DOMAIN craftsmen :
    \A k \in DOMAIN craftsmen[i].service_areas_plz :
      LET service_area == craftsmen[i].service_areas_plz[k] IN
      /\ op = "find_unmatched_service_areas" =>
           (Reported(service_area) <=> ~CoveredAlone(service_area))
      /\ op = "find_missing_properties" =>
           (Reported(service_area) <=>
              ~CoveredAlone(service_area) /\ ~IsJustPlz(service_area))

\* a craftsman that has the category and a service area, none of its service
\* areas holding the property's street name or held by it
NoLiteralMatch(craftsman, property_address, category) ==
  /\ HasCategory(craftsman, category)
  /\ craftsman.service_areas_plz # <<>>
  /\ \A k \in DOMAIN craftsman.service_areas_plz :
       ~LiteralMatch(NormalizeWhitespace(craftsman.service_areas_plz[k]),
                     extract_street_name(property_address))

\* match_property reports matched=true for a service area of the craftsman
AdaptiveMatch(craftsman, property_address) ==
  \E k \in DOMAIN craftsman.service_areas_plz :
    match_property(number_separators, property_address,
                   craftsman.service_areas_plz[k]).matched

\* C18: a provider that lists the category and has a service area, none of
\* its service areas being in literal containment with the property, is
\* returned by find_craftsmen_for_property_and_category if and only if
\* match_property reports matched=true for the property and one of its
\* service areas.
C18_IncludedIffAdaptiveMatch ==
  op = "find_craftsmen_for_property_and_category" =>
    \A i \in DOMAIN craftsmen :
      NoLiteralMatch(craftsmen[i], arg[1], arg[2]) =>
        (craftsmen[i].name \in Range(ret) <=> AdaptiveMatch(craftsmen[i], arg[1]))

\* the streets the segments of a service area name
DescriptorStreets(service_area) ==
  {ServiceStreetOnly(Strip(Split(segment, <<",">>)[1])) :
     segment \in Range(ServiceSegments(NormalizeWhitespace(service_area)))}
  \ {<<>>}

\* equal normalized forms, or both of at least 4 characters and one a prefix
\* of the other
EqualOrPrefix(normalized_service, normalized_property) ==
  \/ normalized_service = normalized_property
  \/ /\ Len(normalized_service) >= MinPrefixLen
     /\ Len(normalized_property) >= MinPrefixLen
     /\ \/ StartsWith(normalized_property, normalized_service)
        \/ StartsWith(normalized_service, normalized_property)

\* the normalized street of the property
PropertyStreet(property_address) ==
  normalize_street_name(PropertyStreetOnly(extract_street_name(property_address)))

\* C26: a provider included for a street-and-number match (none of its
\* descriptors being in literal containment with the property) has a
\* descriptor street whose normalized form equals that of the property
\* street, or is at least 4 characters long and a prefix of it or prefixed by
\* it, the property street's form being at least 4 characters long too; a
\* street whose normalized form is shorter than 4 characters, as "Weg", is
\* matched by an equal normalized form only.
C26_PrefixRuleNeedsFourCharacters ==
  op = "find_craftsmen_for_property_and_category" =>
    \A i \in DOMAIN craftsmen :
      (/\ NoLiteralMatch(craftsmen[i], arg[1], arg[2])
       /\ craftsmen[i].name \in Range(ret))
      => \E k \in DOMAIN craftsmen[i].service_areas_plz :
           \E street \in DescriptorStreets(craftsmen[i].service_areas_plz[k]) :
             EqualOrPrefix(normalize_street_name(street), PropertyStreet(arg[1]))

\* "Badenerstr. 727" was covered by the descriptor "Badener 727": the
\* normalized forms "badenerstr" and "badener" differ, and one is a prefix
\* of the other
C26_Witness ==
  /\ op = "find_craftsmen_for_property_and_category"
  /\ arg = <<Badenerstr727, "Elektriker">>
  /\ Len(craftsmen) = 1
  /\ craftsmen[1].service_areas_plz = <<Badener727>>
  /\ ret = <<craftsmen[1].name>>
  /\ PropertyStreet(arg[1]) # normalize_street_name(SubSeq(Badenerstr, 1, 7))

\* the property's address without its last token is inside a descriptor of
\* the craftsman, or a descriptor is inside it
InLiteralContainment(craftsman, property_address) ==
  \E k \in DOMAIN craftsman.service_areas_plz :
    \/ Contains(craftsman.service_areas_plz[k], RSplitHead(property_address))
    \/ Contains(RSplitHead(property_address), craftsman.service_areas_plz[k])

\* the street-and-number comparison alone serves the property
StreetAndNumberServe(craftsman, property_address) ==
  \E k \in DOMAIN craftsman.service_areas_plz :
    SegmentsServe(number_separators,
                  ServiceSegments(NormalizeWhitespace(craftsman.service_areas_plz[k])),
                  <<>>, PropertyStreetOnly(RSplitHead(property_address)),
                  extract_apartment_numbers(number_separators, property_address))

ProviderIndex(name) == CHOOSE i \in DOMAIN craftsmen : craftsmen[i].name = name

GapListLengths == Len(Flatten([i \in DOMAIN arg |-> arg[i].gaps]))

\* C19: for every list of analyses, generate_summary returns total_properties
\* = the length of the list, properties_with_gaps +
\* properties_with_full_coverage = total_properties,
\* total_gaps_across_all_properties = the sum of the lengths of the gap
\* lists, and the average coverage 0 when the list is empty.
C19_SummaryCounts ==
  op = "generate_summary" =>
    /\ ret.total_properties = Len(arg)
    /\ ret.properties_with_gaps + ret.properties_with_full_coverage
         = ret.total_properties
    /\ ret.properties_with_gaps \in 0..Len(arg)
    /\ ret.total_gaps_across_all_properties = GapListLengths
    /\ arg = <<>> => ret.average_coverage_percentage[1] = 0

\* a summary of the most analyses, some with several gaps and some with none
C19_Witness ==
  /\ op = "generate_summary"
  /\ Len(arg) = MaxAnalyses
  /\ ret.properties_with_gaps > 0
  /\ ret.properties_with_full_coverage > 0
  /\ ret.total_gaps_across_all_properties > ret.properties_with_gaps

\* the number of analyses that have a gap in the category
PropertiesLacking(category) ==
  Cardinality({i \in DOMAIN arg :
                 \E k \in DOMAIN arg[i].gaps : arg[i].gaps[k].category = category})

\* the categories of the gaps in the order the analyses are scanned
GapsInScanOrder ==
  Flatten([i \in DOMAIN arg |->
             [k \in DOMAIN arg[i].gaps |-> arg[i].gaps[k].category]])

\* where the first gap in the category is met while scanning the analyses
FirstGap(category) ==
  CHOOSE n \in DOMAIN GapsInScanOrder :
    /\ GapsInScanOrder[n] = category
    /\ \A m \in 1..(n - 1) : GapsInScanOrder[m] # category

\* the categories the summary lists
ListedCategories ==
  {ret.categories_with_lowest_coverage[j][1] :
     j \in DOMAIN ret.categories_with_lowest_coverage}

\* C20: categories_with_lowest_coverage holds at most 5 categories, each with
\* the number of properties that have a gap in it, in descending order of
\* that number; every category with a gap that is left out has a number no
\* greater than every listed one; and categories with equal numbers stand in
\* the order in which their first gap was met while scanning the analyses.
C20_LowestCoverageOrder ==
  op = "generate_summary" =>
    LET listed == ret.categories_with_lowest_coverage IN
    /\ Len(listed) <= LowestCoverageLen
    /\ \A j \in DOMAIN listed : listed[j][2] = PropertiesLacking(listed[j][1])
    /\ \A j \in DOMAIN listed, k \in DOMAIN listed :
         j < k =>
           /\ listed[j][1] # listed[k][1]
           /\ listed[j][2] >= listed[k][2]
           /\ listed[j][2] = listed[k][2] =>
                FirstGap(listed[j][1]) < FirstGap(listed[k][1])
    /\ \A category \in Range(GapsInScanOrder) \ ListedCategories :
         \A j \in DOMAIN listed : PropertiesLacking(category) <= listed[j][2]

\* five categories are listed and others left out; the listed ones hold a
\* tie and a strict descent
C20_Witness ==
  /\ op = "generate_summary"
  /\ Len(ret.categories_with_lowest_coverage) = LowestCoverageLen
  /\ Range(GapsInScanOrder) \ ListedCategories # {}
  /\ \E j \in 1..(LowestCoverageLen - 1) :
       ret.categories_with_lowest_coverage[j][2]
         = ret.categories_with_lowest_coverage[j + 1][2]
  /\ ret.categories_with_lowest_coverage[1][2]
       > ret.categories_with_lowest_coverage[LowestCoverageLen][2]

\* ---------------------------------------------------------------------
\* Properties of FormatLearner.extract_numbers
\* ---------------------------------------------------------------------

\* the decimal strings of the integers from int(n1) to int(n2)
DecimalStrings(n1, n2) == {ToStr(n) : n \in ToInt(n1)..ToInt(n2)}

\* the tables one learn call over a corpus gives, and the empty table
LearnedTables ==
  {EmptyTable} \cup {learn_from_service_areas(EmptyTable, c) : c \in Corpora}

C6_SlashIndependentOfTable ==
  op = "extract_numbers" /\ Contains(arg, Slash) =>
    /\ \A t \in LearnedTables : extract_numbers(t, arg) = ret
    /\ arg = HoleoholzwegList =>
         ret = {ToStr(61), ToStr(63), ToStr(65), ToStr(67)}

\* a text with '/' and with the learned separator ", " gave its '/' list
C6_Witness ==
  /\ op = "extract_numbers"
  /\ arg = BadenerList3
  /\ TableIndex(number_separators, <<",", " ">>) # 0
  /\ ret = {ToStr(717), ToStr(719), ToStr(721)}

\* C7: every string extract_numbers returns is a digit string of at most 3
\* digits, so no 4- or 5-digit postal code is returned as a house number.
C7_AtMostThreeDigits ==
  op = "extract_numbers" =>
    \A r \in ret : Len(r) <= MaxHouseDigits /\ \A i \in DOMAIN r : IsDigit(r[i])

\* C8: extract_numbers returns the result of the first rule, in the order
\* range, slash, learned separator, fallback, whose result is not empty; it
\* returns nothing only when the fallback rule finds no digit run of at most
\* 3 digits.
C8_FirstNonEmptyRule ==
  op = "extract_numbers" =>
    LET r1 == IF RangeMatch(arg) # <<>> THEN RangeRule(arg) ELSE {}
        r2 == IF Contains(arg, Slash) THEN SlashRule(arg) ELSE {}
        r3 == LearnedRule(arg, SortedByFrequency(number_separators))
        r4 == FallbackRule(arg)
    IN /\ ret = IF r1 # {} THEN r1
               ELSE IF r2 # {} THEN r2
               ELSE IF r3 # {} THEN r3
               ELSE r4
       /\ ret = {} => r4 = {}

\* ---------------------------------------------------------------------
\* Properties of AdaptiveMatcher._normalize_street
\* ---------------------------------------------------------------------

\* the street with periods, whitespace and hyphens dropped and every letter
\* in lower case
Stripped(street) ==
  Lower(SelectSeq(street, LAMBDA c : c \notin {".", "-"} \cup Whitespace))

\* C9: _normalize_street lowercases its input, removes every period, every
\* whitespace character and every hyphen, and replaces a final "strasse" or
\* "stra(sharp s)e" by "str"; "Calandastrasse" and "Calandastr." both give
\* "calandastr".
C9_NormalizeStreet ==
  op = "_normalize_street" =>
    /\ \A i \in DOMAIN ret :
         ret[i] \notin {".", "-"} \cup Whitespace \cup UpperLetters
    /\ \/ /\ EndsWith(Stripped(arg), strasse)
          /\ ret = SubSeq(Stripped(arg), 1, Len(Stripped(arg)) - Len(strasse)) \o str
       \/ /\ EndsWith(Stripped(arg), strasze)
          /\ ret = SubSeq(Stripped(arg), 1, Len(Stripped(arg)) - Len(strasze)) \o str
       \/ /\ ~EndsWith(Stripped(arg), strasse)
          /\ ~EndsWith(Stripped(arg), strasze)
          /\ ret = Stripped(arg)
    /\ arg \in {Calandastrasse, CalandastrDot} => ret = calandastr

\* "Calandastr." was normalized to "calandastr"
C9_Witness ==
  /\ op = "_normalize_street"
  /\ arg = CalandastrDot
  /\ ret = calandastr

\* C10: street normalization is idempotent: normalizing a normalized name
\* gives it back, also for names that hold "strasse" more than once.
C10_NormalizeIdempotent ==
  op = "_normalize_street" => _normalize_street(ret) = ret

\* "Strassestrasse" was normalized to "strassestr", which still holds
\* "strasse"
C10_Witness ==
  /\ op = "_normalize_street"
  /\ arg = Strassestrasse
  /\ ret = strasse \o str

\* ---------------------------------------------------------------------
\* Properties of SegmentParser.parse_segment
\* ---------------------------------------------------------------------

\* the segment starts with 4 or 5 digits, whitespace and an uppercase letter
StartsLikePostalCode(segment) ==
  \E n \in {4, 5} :
    /\ Len(segment) > n
    /\ \A i \in 1..n : IsDigit(segment[i])
    /\ IsSpace(segment[n + 1])
    /\ LET j == SkipSpaces(segment, n + 1) IN
       j <= Len(segment) /\ segment[j] \in UpperLetters

\* the type and the confidence of the first rule that applies to a segment
FirstRule(segment) ==
  IF StartsLikePostalCode(segment) THEN <<"POSTAL_CODE", <<95, 100>>>>
  ELSE IF IsDigitString(segment) THEN <<"NUMBER", <<90, 100>>>>
  ELSE IF \E i \in DOMAIN segment : IsAlpha(segment[i])
  THEN IF ret.numbers # {} \/ ret.street # segment
       THEN <<"STREET", <<85, 100>>>> ELSE <<"STREET", <<80, 100>>>>
  ELSE <<"UNKNOWN", <<0, 100>>>>

\* the pieces of the descriptor that _parse_by_format hands to parse_segment
SegmentsOf(area) == FormatSegments(area, _detect_format(area))

\* C21: parse_segment classifies every string by the first rule that
\* applies: POSTAL_CODE with confidence 0.95 when it starts with 4-5 digits,
\* whitespace and an uppercase letter, else NUMBER with 0.9 when it is all
\* digits, else STREET when it holds a letter (0.85 when a number part was
\* split off, else 0.8), else UNKNOWN with 0.0; and a descriptor whose pieces
\* are all UNKNOWN gives no (street, numbers) group.
C21_ClassifiedByFirstRule ==
  /\ op = "parse_segment" =>
       <<ret.type, ret.confidence>> = FirstRule(Strip(arg))
  /\ op = "_parse_by_format" =>
       ((\A k \in DOMAIN SegmentsOf(arg) :
           parse_segment(number_separators, SegmentsOf(arg)[k]).type = "UNKNOWN")
        => ret = <<>>)

\* ---------------------------------------------------------------------
\* Properties of the learned separators
\* ---------------------------------------------------------------------

\* the learned separators other than '/' that occur in the text
LearnedIn(table, text) ==
  {table[i][1] : i \in {j \in DOMAIN table :
                          table[j][1] # Slash /\ Contains(text, table[j][1])}}

\* the most frequent of them
MostFrequentIn(table, text) ==
  {s \in LearnedIn(table, text) :
     \A t \in LearnedIn(table, text) :
       table[TableIndex(table, t)][2] <= table[TableIndex(table, s)][2]}

\* the first digit run of at most 3 digits of every part of the text split on
\* the separator
FirstShortNumbers(text, separator) ==
  LET parts == Split(text, separator)
      short(i) == SelectSeq(DigitRuns(parts[i]), LAMBDA r : Len(r) <= MaxHouseDigits)
  IN {short(i)[1] : i \in {j \in DOMAIN parts : short(j) # <<>>}}

\* C22: for a text without a dash range and without '/', in which a learned
\* separator other than '/' occurs, extract_numbers splits on the most
\* frequent such separator and returns the first number of at most 3 digits
\* of every part, provided there is one.
C22_FirstShortNumberOfEachPart ==
  (/\ op = "extract_numbers"
   /\ RangeMatch(arg) = <<>>
   /\ ~Contains(arg, Slash)
   /\ \E s \in MostFrequentIn(number_separators, arg) : FirstShortNumbers(arg, s) # {})
  => \E s \in MostFrequentIn(number_separators, arg) :
       FirstShortNumbers(arg, s) # {} /\ ret = FirstShortNumbers(arg, s)


\* the frequency of a separator in the table (0 when it is no key)
Frequency(table, sep) ==
  IF TableIndex(table, sep) = 0 THEN 0 ELSE table[TableIndex(table, sep)][2]

Keys(table) == [i \in DOMAIN table |-> table[i][1]]

\* the text between the k-th digit run of a descriptor and the next one
GapAfter(area, k) ==
  SubSeq(area, DigitRunSpans(area)[k][2] + 1, DigitRunSpans(area)[k + 1][1] - 1)

\* <<i, k>> for every gap between two consecutive digit runs of the i-th
\* descriptor of a corpus
GapsOf(service_areas) ==
  UNION {{<<i, k>> : k \in 1..(Len(DigitRunSpans(service_areas[i])) - 1)} :
           i \in DOMAIN service_areas}

\* how often sep stands between two consecutive digit runs of a descriptor
Occurrences(service_areas, sep) ==
  Cardinality({g \in GapsOf(service_areas) :
                 GapAfter(service_areas[g[1]], g[2]) = sep})

\* a string without a digit and without a letter
IsSeparator(sep) == \A i \in DOMAIN sep : ~IsDigit(sep[i]) /\ ~IsAlpha(sep[i])

\* after is before with 1 added to the frequency of a separator for every
\* occurrence of it in the corpus, and nothing else
AddsOccurrences(before, after, service_areas) ==
  \A sep \in Range(Keys(before)) \cup Range(Keys(after))
             \cup {GapAfter(service_areas[g[1]], g[2]) : g \in GapsOf(service_areas)} :
    Frequency(after, sep) =
      Frequency(before, sep)
      + (IF IsSeparator(sep) THEN Occurrences(service_areas, sep) ELSE 0)

\* the table of a learner that learned the corpus n times
RECURSIVE LearnedTimes(_, _)
LearnedTimes(service_areas, n) ==
  IF n = 0 THEN EmptyTable
  ELSE learn_from_service_areas(LearnedTimes(service_areas, n - 1), service_areas)

\* C23: a learn call adds 1 to the frequency of a separator for every
\* occurrence of it between two consecutive digit runs of a descriptor and
\* changes nothing else; a learner that learns the same corpus a second time
\* keeps its keys and their descending-frequency order, with every frequency
\* doubled, and then extracts from every text the numbers it would extract
\* after the first call.
C23_RelearningKeepsOrder ==
  [][/\ learn_calls' # learn_calls =>
          /\ \E service_areas \in Corpora :
               AddsOccurrences(number_separators, number_separators', service_areas)
          /\ UNCHANGED <<properties, categories, craftsmen, pc, op, arg, ret>>
     /\ \A service_areas \in Corpora :
          (/\ number_separators = LearnedTimes(service_areas, 1)
           /\ learn_calls' # learn_calls
           /\ AddsOccurrences(number_separators, number_separators', service_areas))
          => /\ Keys(number_separators') = Keys(number_separators)
             /\ Keys(SortedByFrequency(number_separators'))
                  = Keys(SortedByFrequency(number_separators))
             /\ \A i \in DOMAIN number_separators :
                  number_separators'[i][2] = 2 * number_separators[i][2]
     /\ \A service_areas \in Corpora :
          (/\ op' = "extract_numbers"
           /\ op = "none"
           /\ number_separators = LearnedTimes(service_areas, 2))
          => ret' = extract_numbers(LearnedTimes(service_areas, 1), arg)
    ]_vars

\* after ["Weg 1, 2, 3", "Im Struppen 8 11"] was learned twice, the numbers
\* of "Im Struppen 8 11" were extracted with the learned separator " "
C23_Witness ==
  /\ op = "extract_numbers"
  /\ learn_calls = 2
  /\ number_separators = <<(<<(<<",", " ">>), 4>>), <<Sp, 2>>>>
  /\ arg = StruppenSpaceList
  /\ ret = {ToStr(8), ToStr(11)}


\* ---------------------------------------------------------------------
\* Properties of AdaptiveMatcher._detect_format and _parse_by_format
\* ---------------------------------------------------------------------

Formats == {"multi_property_range", "multi_street", "comma_separated", "simple"}

\* every " / "-separated unit after the first is a string of digits
RestPurelyNumeric(area) ==
  LET pieces == Split(area, <<" ", "/", " ">>) IN
  \A k \in 2..Len(pieces) : IsDigitString(Strip(pieces[k]))

\* C24: _detect_format returns one of four formats: multi_property_range
\* when the descriptor holds " / " and every unit after the first is purely
\* numeric, multi_street for every other descriptor that holds " / ",
\* comma_separated when it holds ',' and no " / ", and simple otherwise.
C24_FormatOfDescriptor ==
  op = "_detect_format" =>
    /\ ret \in Formats
    /\ ret = IF Contains(arg, <<" ", "/", " ">>)
             THEN IF RestPurelyNumeric(arg) THEN "multi_property_range"
                  ELSE "multi_street"
             ELSE IF Contains(arg, <<",">>) THEN "comma_separated"
             ELSE "simple"


\* ---------------------------------------------------------------------
\* Properties of AdaptiveTokenizer.tokenize
\* ---------------------------------------------------------------------

\* C25: tokenize emits, for every non-empty piece of the text split on " / "
\* and then on ',', a POSTAL token when the piece starts with 4 or 5 digits
\* followed by whitespace and a CITY token when it starts with an uppercase
\* letter and holds no number, in the order of the pieces.
C25_PostalAndCityTokens ==
  op = "tokenize" =>
    /\ Len(ret) = Len(Parts(arg))
    /\ \A k \in DOMAIN Parts(arg) :
         LET piece == Parts(arg)[k] IN
         /\ IsPostalPrefix(piece) => ret[k].head = <<Token("POSTAL", piece)>>
         /\ (piece[1] \in UpperLetters /\ DigitRuns(piece) = <<>>)
              => ret[k].head = <<Token("CITY", piece)>>


\* the parsed pieces of a comma_separated descriptor
CommaPieces(table, area) == ParseAll(table, Split(area, <<",">>))

\* the numbers of the k-th piece, a street piece, and of the number pieces
\* that follow it up to the next street piece
NumbersUnder(pieces, k) ==
  pieces[k].numbers
  \cup {pieces[j].value :
          j \in {j \in (k + 1)..Len(pieces) :
                   /\ pieces[j].type = "NUMBER"
                   /\ \A m \in (k + 1)..j : pieces[m].type # "STREET"}}

\* C27: every group that _parse_by_format emits for a comma_separated
\* descriptor pairs the street of a street piece with exactly the numbers of
\* that piece and of the number pieces after it up to the next street piece:
\* no number before a street piece, or under an earlier street, goes to a
\* later street.
C27_NumbersStayUnderTheirStreet ==
  (op = "_parse_by_format" /\ _detect_format(arg) = "comma_separated") =>
    \A g \in DOMAIN ret :
      \E k \in DOMAIN CommaPieces(number_separators, arg) :
        /\ CommaPieces(number_separators, arg)[k].type = "STREET"
        /\ ret[g].street = CommaPieces(number_separators, arg)[k].street
        /\ ret[g].numbers = NumbersUnder(CommaPieces(number_separators, arg), k)


\* "S n1 / n2 / ... / nk": one street and " / "-separated house numbers
RangeDescriptor(street, house_numbers) ==
  street \o Sp \o JoinWith(house_numbers, <<" ", "/", " ">>)

\* the house numbers of the descriptor "Badenerstr. 717 / 719 / 727"
SpacedNumbers == <<ToStr(717), ToStr(719), ToStr(727)>>

\* C28: for a multi_property_range descriptor "S n1 / n2 / ... / nk",
\* match_property reports matched=true for the property "S ni" for every i
\* from 1 to k, the number n1 written in the segment of the street included.
C28_EveryListedNumberMatches ==
  (/\ op = "match_property"
   /\ arg[2] = RangeDescriptor(Badenerstr, SpacedNumbers)
   /\ _detect_format(arg[2]) = "multi_property_range")
  => \A i \in DOMAIN SpacedNumbers :
       arg[1] = Badenerstr \o Sp \o SpacedNumbers[i] => ret.matched

====
